---- MODULE Spec2Model ----
(***************************************************************************)
(* Model of the seat-lookup / payment dashboard:                           *)
(*   - src/lib/db.ts           the pooled database layer and the name      *)
(*                             search (searchPaymentsByNameOrEmail)        *)
(*   - src/app/dashboard/page.tsx   the seat-lookup page (date buckets,    *)
(*                             CSV export)                                 *)
(*   - src/unnamed/part_002    the query page (processZipCodesFromData)    *)
(* Strings are sequences of one-character strings, so that substring        *)
(* matching, splitting, parsing and quoting are computed, not assumed.      *)
(***************************************************************************)
EXTENDS Integers, Sequences, FiniteSets, TLC

VARIABLES
    \* ---- database content (read only for this system)
    payments,          \* table payments: row id -> row
    events,            \* table events: id -> [user_id]
    event_attendees,   \* table event_attendees: id -> [first_name, last_name]
    \* ---- the connection pool of db.ts
    pool,              \* the module variable pool: "null" | "open"
    clients,           \* pooled connection -> [state, readOnly, queue]
    executed,          \* history: statements of query() the server has run
    warnings,          \* the messages the connect handler has passed to console.warn
    instance,          \* which Pool the module variable pool refers to (0 for null)
    constructed,       \* how often new Pool(config) has run
    registered,        \* per Pool constructed: how often each handler was registered
    handed,            \* the Pools getDb has returned since closeDb last reset pool
    sinceClose,        \* runs of new Pool(config) since closeDb last reset pool
    ending,            \* pool.end() has been called and has not resolved
    endCalls,          \* per Pool constructed: how often end() was called on it
    closing,           \* the Pool whose end() closeDb awaits (0 for none)
    returnedEnding,    \* history: getDb has returned a Pool after end() was called on it
    \* ---- one invocation of searchPayments
    spPc,              \* "idle" | "query" | "done" | "failed"
    spParams,          \* the PaymentSearchParams of the call
    queryText,         \* let queryText: the statement, as tokens
    queryParams,       \* const queryParams: unknown[]
    \* ---- one invocation of searchPaymentsByNameOrEmail
    sPc,               \* "idle" | "payments" | "attendees" | "done" | "failed"
    params,            \* [searchQuery, hostUserId]
    rows,              \* rows returned by the payments statement
    attendeeIds,       \* distinct non-null attendee ids of rows
    attendeeMap,       \* id -> [first_name, last_name] of the batch fetch
    ret,               \* the SeatLookupResult[] returned
    thrown,            \* the error rethrown to the caller, or "none"
    raised,            \* the error the pool rejected the failed statement with, or "none"
    queryLog,          \* statements handed to query(), in order
    \* ---- the seat-lookup page (dashboard/page.tsx)
    searchQuery,       \* useState("")
    results,           \* useState<SeatLookupResult[]>([])
    isLoading,         \* useState(false)
    showPastTransactions,    \* useState(false)
    showFutureTransactions,  \* useState(false)
    today,             \* the current local day (new Date() at midnight), a day number
    toggled,           \* history: the checkbox changed by the latest step and the
                       \* paymentIds displayed before it, or NoToggle
    toasts,            \* toasts of the latest handler run: [loading, error, success]
    csvContent,        \* the text handed to the download by the export just run, or NoCsv
    pending,           \* seat-lookup requests sent and not yet settled
    \* ---- the query page (part_002) and one run of processFromSQL
    checkZips,         \* useState(false)
    isProcessing,      \* useState(false)
    progress,          \* useState(0)
    qResults,          \* useState<Result[]>([])           (results)
    qErrors,           \* useState<ProcessingError[]>([])  (errors)
    qToast,            \* the toast shown last on this page
    zPc,               \* "idle" | "sql" | "fetch" | "json" | "delay" | "finished" | "failed"
    zCheck,            \* checkZips as captured by the running closure
    zData,             \* data.results of the run
    zi,                \* the row being processed (1-based; the code's i + 1)
    locResults,        \* the local array results
    locErrors,         \* the local array errors
    zipCode,           \* the local zipCode of the row being processed
    outcomes,          \* history: the outcome of each row's ZIP lookup
    \* ---- the form tab of the query page (part_002)
    selectedTable,     \* useState("payments_fdw")
    formFilters,       \* useState({limit: 100, orderBy: "created_at", ...})
    formSql,           \* the SQL text processFromForm built last, as tokens, or NoSql
    \* ---- history of the ZIP loop
    zTrace,            \* fetch-zip requests started and ended and delays awaited, in order
    calls,             \* history: the nl-to-sql and execute-sql requests of the latest
                       \* run and what came of each, in order
    \* ---- the data-source tabs of the query page and the handler run in progress
    dataSource,        \* useState<DataSource>("sql")
    sqlQuery,          \* useState("")
    naturalLanguageQuery,  \* useState("")
    generatedSQL,      \* useState(""): the sql text nl-to-sql answered last
    zSource,           \* the handler of the latest run: "none" | "sql" | "wizard" | "form"
    runs,              \* handler runs started and not yet ended
    qToasts,           \* toasts of the latest run: [loading, error, success]
    \* ---- the chart panel of the query page (part_002)
    selectedChart,     \* useState("")
    customPrompt,      \* useState("")
    chartData,         \* useState([]): the preset whose data is loaded and its size
    chartType,         \* useState("line")
    chartToast,        \* the toast the latest generateChart showed, "" before the first
    charted            \* history: selectedChart and customPrompt the latest generateChart read

tables == <<payments, events, event_attendees>>
lazyVars == <<instance, constructed, registered, handed, sinceClose, endCalls, closing,
              returnedEnding>>
poolVars == <<pool, clients, executed, warnings, lazyVars, ending>>
stmtVars == <<spPc, spParams, queryText, queryParams>>
dbVars == <<tables, poolVars, stmtVars>>
searchVars == <<sPc, params, rows, attendeeIds, attendeeMap, ret, thrown, raised, queryLog>>
pageVars == <<searchQuery, results, isLoading, showPastTransactions,
              showFutureTransactions, today, toggled, toasts, csvContent, pending>>
zipVars == <<checkZips, isProcessing, progress, qResults, qErrors, qToast, zPc, zCheck,
             zData, zi, locResults, locErrors, zipCode, outcomes>>
formVars == <<selectedTable, formFilters, formSql>>
traceVars == <<zTrace, calls>>
inputVars == <<dataSource, sqlQuery, naturalLanguageQuery>>
runVars == <<generatedSQL, zSource, runs, qToasts>>
chartVars == <<selectedChart, customPrompt, chartData, chartType, chartToast, charted>>
panelVars == <<formVars, traceVars, inputVars, runVars, chartVars>>
vars == <<dbVars, searchVars, pageVars, zipVars, panelVars>>

\* SQL NULL / JS null in a numeric column (row ids start at 1)
NULL == -1

\* JS null where a string is expected: a sequence that is no character string
NullStr == <<"null">>

\* ------------------------------------------------------------------ text

Digit == <<"0", "1", "2", "3", "4", "5", "6", "7", "8", "9">>

RECURSIVE Digits(_)
\* `${n}` for a natural number n
Digits(n) == IF n < 10 THEN <<Digit[n + 1]>> ELSE Digits(n \div 10) \o <<Digit[(n % 10) + 1]>>

\* String.prototype.toLowerCase / SQL LOWER on the modelled alphabet
Lower(c) ==
    CASE c = "A" -> "a" [] c = "B" -> "b" [] c = "L" -> "l" [] c = "N" -> "n"
      [] c = "Z" -> "z" [] OTHER -> c

LowerStr(s) == [i \in 1..Len(s) |-> Lower(s[i])]

\* s contains q as a substring, compared case-insensitively
ContainsCI(s, q) ==
    \E k \in 0..(Len(s) - Len(q)) :
        \A i \in 1..Len(q) : Lower(s[k + i]) = Lower(q[i])

\* ------------------------------------------------------------------ dates

\* days since 1970-01-01 of the civil date y-m-d (m in 1..12)
DaysFromCivil(y, m, d) ==
    LET yy  == IF m <= 2 THEN y - 1 ELSE y
        era == yy \div 400
        yoe == yy - era * 400
        mp  == IF m > 2 THEN m - 3 ELSE m + 9
        doy == (153 * mp + 2) \div 5 + d - 1
        doe == yoe * 365 + yoe \div 4 - yoe \div 100 + doy
    IN  era * 146097 + doe - 719468

\* the civil date <<y, m, d>> of a day number
CivilFromDays(z0) ==
    LET z   == z0 + 719468
        era == z \div 146097
        doe == z - era * 146097
        yoe == (doe - doe \div 1460 + doe \div 36524 - doe \div 146096) \div 365
        doy == doe - (365 * yoe + yoe \div 4 - yoe \div 100)
        mp  == (5 * doy + 2) \div 153
        d   == doy - (153 * mp + 2) \div 5 + 1
        m   == IF mp < 10 THEN mp + 3 ELSE mp - 9
        y   == yoe + era * 400 + (IF m <= 2 THEN 1 ELSE 0)
    IN  <<y, m, d>>

Pad2(n) == IF n < 10 THEN <<"0">> \o Digits(n) ELSE Digits(n)

\* Date.toLocaleDateString('en-US', {year:'numeric', month:'2-digit', day:'2-digit'})
\* of a valid date: MM/DD/YYYY
FormatDate(day) ==
    LET c == CivilFromDays(day)
    IN  Pad2(c[2]) \o <<"/">> \o Pad2(c[3]) \o <<"/">> \o Digits(c[1])

\* ------------------------------------------------------------------ database

\* LIMIT 100 of the payments statement
Limit == 100

\* rows of the enumerated payments tables
MaxPayments == 2

Times == {20760, 20761}
Hosts == {1, 2}
Queries == {<<"a", "N">>, <<"z">>}

EventsTable == (1 :> [user_id |-> 1]) @@ (2 :> [user_id |-> 2])

AttendeesTable ==
    (1 :> [first_name |-> <<"A", "n", "n">>, last_name |-> <<"L", "e", "e">>])
    @@ (2 :> [first_name |-> <<"b", "o">>, last_name |-> <<"N", "g">>])

PaymentRows ==
    [event_id : {NULL, 1, 2}, event_attendee_id : {NULL, 1, 3}, created_at : Times]

SmallTables == UNION {[1..n -> PaymentRows] : n \in 0..MaxPayments}

\* a table with more rows of host 1 than the statement's LIMIT
BulkTable ==
    [i \in 1..(Limit + 40) |->
        [event_id |-> IF i % 7 = 0 THEN 2 ELSE IF i % 11 = 0 THEN NULL ELSE 1,
         event_attendee_id |-> IF i % 4 = 0 THEN NULL ELSE i % 4,
         created_at |-> 20700 + ((i * 37) % 50)]]

\* mutant of Before: ORDER BY p.created_at ASC
BeforeAscending(i, j, tie) ==
    \/ payments[i].created_at < payments[j].created_at
    \/ /\ payments[i].created_at = payments[j].created_at
       /\ IF tie = "asc" THEN i <= j ELSE i >= j

\* ORDER BY p.created_at DESC; rows with equal created_at come in an order the
\* database chooses (tie: by ascending or by descending row id)
Before(i, j, tie) ==
    \/ payments[i].created_at > payments[j].created_at
    \/ /\ payments[i].created_at = payments[j].created_at
       /\ IF tie = "asc" THEN i <= j ELSE i >= j

\* the ids of S in that order (the k-th is the one with k ids at or before it)
OrderBy(S, tie) ==
    LET rank == [i \in S |-> Cardinality({j \in S : Before(j, i, tie)})]
    IN  [k \in 1..Cardinality(S) |-> CHOOSE i \in S : rank[i] = k]

\* mutant of Joined: the WHERE e.user_id = $1 condition left out
JoinedAnyHost(hostUserId) ==
    {i \in DOMAIN payments : payments[i].event_id \in DOMAIN events}

\* FROM payments p INNER JOIN events e ON p.event_id = e.id WHERE e.user_id = $1
Joined(hostUserId) ==
    {i \in DOMAIN payments :
        /\ payments[i].event_id \in DOMAIN events
        /\ events[payments[i].event_id].user_id = hostUserId}

\* mutant of Take: the LIMIT clause left out
TakeAll(s, n) == s

\* LIMIT n
Take(s, n) == IF Len(s) <= n THEN s ELSE SubSeq(s, 1, n)

\* the payments statement of searchPaymentsByNameOrEmail
PaymentsQuery(hostUserId, tie) ==
    LET ids == Take(OrderBy(Joined(hostUserId), tie), Limit)
    IN  [k \in 1..Len(ids) |->
            [payment_id |-> ids[k],
             amount |-> 10 * ids[k],
             created_at |-> payments[ids[k]].created_at,
             event_id |-> payments[ids[k]].event_id,
             event_attendee_id |-> payments[ids[k]].event_attendee_id]]

\* SELECT id, first_name, last_name FROM event_attendees WHERE id = ANY($1)
AttendeeQuery(ids) ==
    LET found == {ids[k] : k \in 1..Len(ids)} \cap DOMAIN event_attendees
    IN  [a \in found |-> event_attendees[a]]

\* ------------------------------------------------------------------ search

\* [...new Set(s)]: the distinct values in order of first occurrence
Distinct(s) ==
    LET firsts == {k \in 1..Len(s) : \A j \in 1..(k - 1) : s[j] # s[k]}
    IN  [n \in 1..Cardinality(firsts) |->
            s[CHOOSE k \in firsts : Cardinality({j \in firsts : j <= k}) = n]]

\* mutant of AttendeeIdsOf: the ids are not passed through a Set
AttendeeIdsNotDistinct(rs) ==
    SelectSeq([k \in 1..Len(rs) |-> rs[k].event_attendee_id],
              LAMBDA x : x # NULL /\ x # 0)

\* rows.map(r => r.event_attendee_id).filter(Boolean), made distinct
AttendeeIdsOf(rs) ==
    Distinct(SelectSeq([k \in 1..Len(rs) |-> rs[k].event_attendee_id],
                       LAMBDA x : x # NULL /\ x # 0))

AttendeePrefix == <<"A", "t", "t", "e", "n", "d", "e", "e", " ", "#">>
EventPrefix == <<"E", "v", "e", "n", "t", " ", "#">>

\* mutant of AttendeeName: no placeholder for an id the batch fetch did not return
AttendeeNameNoFallback(row, map) ==
    IF row.event_attendee_id # NULL /\ row.event_attendee_id \in DOMAIN map
    THEN map[row.event_attendee_id].first_name \o <<" ">>
             \o map[row.event_attendee_id].last_name
    ELSE NullStr

\* the name put on one row (db.ts 254-262)
AttendeeName(row, map) ==
    IF row.event_attendee_id # NULL /\ row.event_attendee_id # 0
    THEN IF row.event_attendee_id \in DOMAIN map
         THEN map[row.event_attendee_id].first_name \o <<" ">>
                  \o map[row.event_attendee_id].last_name
         ELSE AttendeePrefix \o Digits(row.event_attendee_id)
    ELSE NullStr

\* rows.map(...) of db.ts 241-274
Merge(rs, map) ==
    [k \in 1..Len(rs) |->
        [eventName |-> EventPrefix \o Digits(rs[k].event_id),
         eventStartDate |-> FormatDate(rs[k].created_at),
         paymentId |-> rs[k].payment_id,
         amount |-> rs[k].amount,
         payerName |-> AttendeeName(rs[k], map),
         payerEmail |-> NullStr,
         transactionId |-> NullStr]]

PaymentsSql == "payments"
AttendeesSql == "attendees"
EmptyMap == [a \in {} |-> NULL]
NoParams == [searchQuery |-> <<>>, hostUserId |-> NULL]

NoCsv == <<"(no download)">>
NoToasts == [loading |-> FALSE, error |-> 0, success |-> 0]

\* the day the page is first rendered (2026-11-04), and the days it stays open
FirstDay == DaysFromCivil(2026, 11, 4)
Days == {FirstDay, FirstDay + 1}

\* the latest step changed no checkbox
NoToggle == [box |-> "none", shown |-> {}]

\* the page as constructed by the useState initialisers
PageFresh ==
    /\ searchQuery = <<>>
    /\ results = <<>>
    /\ isLoading = FALSE
    /\ showPastTransactions = FALSE
    /\ showFutureTransactions = FALSE
    /\ today = FirstDay
    /\ toggled = NoToggle
    /\ toasts = NoToasts
    /\ csvContent = NoCsv
    /\ pending = 0

NoToast == [kind |-> "none", successful |-> 0, failed |-> 0, withFailed |-> FALSE]

\* the query page as constructed by the useState initialisers, no run started
QueryPageFresh ==
    /\ checkZips = FALSE
    /\ isProcessing = FALSE
    /\ progress = 0
    /\ qResults = <<>>
    /\ qErrors = <<>>
    /\ qToast = NoToast
    /\ zPc = "idle"
    /\ zCheck = FALSE
    /\ zData = <<>>
    /\ zi = 0
    /\ locResults = <<>>
    /\ locErrors = <<>>
    /\ zipCode = "-"
    /\ outcomes = <<>>

NoSql == <<[t |-> "none", alias |-> "", v |-> "", n |-> 0, chars |-> <<>>]>>

\* useState({...}) of formFilters (part_002 92-105); hostUserId is kept as characters
DefaultFilters ==
    [limit |-> 100, orderBy |-> <<"c", "r", "e", "a", "t", "e", "d", "_", "a", "t">>,
     orderDirection |-> <<"D", "E", "S", "C">>,
     status |-> "", cardType |-> "", dateFrom |-> "", dateTo |-> "",
     minAmount |-> "", maxAmount |-> "", hasGatewayId |-> FALSE,
     hasTransactionId |-> FALSE, hostUserId |-> <<>>]

\* useState([]) of chartData: no preset's data is loaded
NoChart == [preset |-> "", rows |-> 0]

PanelFresh ==
    /\ selectedTable = "payments_fdw"
    /\ formFilters = DefaultFilters
    /\ formSql = NoSql
    /\ zTrace = <<>>
    /\ calls = <<>>
    /\ dataSource = "sql"
    /\ sqlQuery = <<>>
    /\ naturalLanguageQuery = <<>>
    /\ generatedSQL = <<>>
    /\ zSource = "none"
    /\ runs = 0
    /\ qToasts = NoToasts
    /\ selectedChart = ""
    /\ customPrompt = <<>>
    /\ chartData = NoChart
    /\ chartType = "line"
    /\ chartToast = ""
    /\ charted = [selected |-> "", prompt |-> <<>>]

\* max of getPoolConfig is 10; two connections already show every interleaving of one
\* connection's setup with another's statements
MaxClients == 2
MaxQueries == 2
MaxPools == 2
\* calls of end() on one Pool: the second is the one pg rejects
MaxEndCalls == 2

NoClient == [state |-> "absent", readOnly |-> FALSE, queue |-> <<>>]

PoolFresh ==
    /\ pool = "null"
    /\ clients = [c \in 1..MaxClients |-> NoClient]
    /\ executed = <<>>
    /\ warnings = {}
    /\ instance = 0
    /\ constructed = 0
    /\ registered = <<>>
    /\ handed = {}
    /\ sinceClose = 0
    /\ ending = FALSE
    /\ endCalls = <<>>
    /\ closing = 0
    /\ returnedEnding = FALSE

\* a parameter value: undefined, a string[], a string or a number
Undefined == [kind |-> "undefined", arr |-> <<>>, str |-> "", num |-> 0]
ArrayOf(a) == [kind |-> "array", arr |-> a, str |-> "", num |-> 0]
StringOf(text) == [kind |-> "string", arr |-> <<>>, str |-> text, num |-> 0]
NumberOf(k) == [kind |-> "number", arr |-> <<>>, str |-> "", num |-> k]

NoSearchParams ==
    [transactionIds |-> Undefined, dateFrom |-> Undefined, dateTo |-> Undefined,
     hostUserId |-> Undefined, limit |-> Undefined, offset |-> Undefined]

\* searchPayments has not been called
StatementIdle ==
    /\ spPc = "idle"
    /\ spParams = NoSearchParams
    /\ queryText = <<>>
    /\ queryParams = <<>>

SearchIdle ==
    /\ sPc = "idle"
    /\ params = NoParams
    /\ rows = <<>>
    /\ attendeeIds = <<>>
    /\ attendeeMap = EmptyMap
    /\ ret = <<>>
    /\ thrown = "none"
    /\ raised = "none"
    /\ queryLog = <<>>

InitSearch ==
    /\ payments \in SmallTables \cup {BulkTable}
    /\ events = EventsTable
    /\ event_attendees = AttendeesTable
    /\ SearchIdle
    /\ PageFresh
    /\ QueryPageFresh
    /\ PoolFresh
    /\ StatementIdle
    /\ PanelFresh

\* searchPaymentsByNameOrEmail is called: the payments statement is handed to query()
SearchCall(q, h) ==
    /\ sPc \in {"idle", "done", "failed"}
    /\ sPc' = "payments"
    /\ params' = [searchQuery |-> q, hostUserId |-> h]
    /\ rows' = <<>>
    /\ attendeeIds' = <<>>
    /\ attendeeMap' = EmptyMap
    /\ ret' = <<>>
    /\ thrown' = "none"
    /\ raised' = "none"
    /\ queryLog' = <<[sql |-> PaymentsSql, args |-> <<h>>]>>
    /\ UNCHANGED <<dbVars, pageVars, zipVars, panelVars>>

\* the payments statement returns; the attendee statement is issued when there are ids,
\* otherwise the rows are merged and returned
PaymentsReturn(tie) ==
    /\ sPc = "payments"
    /\ LET rs == PaymentsQuery(params.hostUserId, tie)
           ids == AttendeeIdsOf(rs)
       IN  /\ rows' = rs
           /\ attendeeIds' = ids
           /\ IF Len(ids) > 0
              THEN /\ sPc' = "attendees"
                   /\ queryLog' = Append(queryLog, [sql |-> AttendeesSql, args |-> <<ids>>])
                   /\ ret' = ret
              ELSE /\ sPc' = "done"
                   /\ queryLog' = queryLog
                   /\ ret' = Merge(rs, EmptyMap)
    /\ UNCHANGED <<params, attendeeMap, thrown, raised, dbVars, pageVars, zipVars, panelVars>>

\* the attendee statement returns: the map is filled, the rows merged and returned
AttendeesReturn ==
    /\ sPc = "attendees"
    /\ LET map == AttendeeQuery(attendeeIds)
       IN  /\ attendeeMap' = map
           /\ ret' = Merge(rows, map)
    /\ sPc' = "done"
    /\ UNCHANGED <<params, rows, attendeeIds, thrown, raised, queryLog, dbVars, pageVars, zipVars, panelVars>>

\* the errors db.query can reject with
PoolErrors == {"timeout", "relationMissing"}

\* mutants of the two catch blocks: the error is replaced by a new one
QueryRethrowWrapped(error) == "Database query error"

\* query(): catch (error) { console.error(...); throw error }
QueryRethrow(error) == error

\* searchPaymentsByNameOrEmail: catch (error) { console.error(...); throw error }
SearchRethrow(error) == error

\* db.query rejects the statement in flight: query() rethrows, then
\* searchPaymentsByNameOrEmail rethrows; nothing is returned
QueryFails(error) ==
    /\ sPc \in {"payments", "attendees"}
    /\ sPc' = "failed"
    /\ raised' = error
    /\ thrown' = SearchRethrow(QueryRethrow(error))
    /\ UNCHANGED <<params, rows, attendeeIds, attendeeMap, ret, queryLog, dbVars, pageVars, zipVars, panelVars>>

NextSearch ==
    \/ \E q \in Queries, h \in Hosts : SearchCall(q, h)
    \/ \E tie \in {"asc", "desc"} : PaymentsReturn(tie)
    \/ AttendeesReturn
    \/ \E error \in PoolErrors : QueryFails(error)

SpecSearch == InitSearch /\ [][NextSearch]_vars

\* ------------------------------------------------------------------ claims: search

Returned == {ret[k].paymentId : k \in 1..Len(ret)}
CreatedAt(k) == payments[ret[k].paymentId].created_at
OwnedBy(i, h) ==
    /\ payments[i].event_id \in DOMAIN events
    /\ events[payments[i].event_id].user_id = h

\* C1: every result returned by searchPaymentsByNameOrEmail is a payment whose event is
\* owned by the host user id of the call; payments of another host's event and payments
\* without an event are never returned.
C1_ResultsScopedToHost ==
    sPc = "done" =>
        \A k \in 1..Len(ret) :
            /\ ret[k].paymentId \in DOMAIN payments
            /\ payments[ret[k].paymentId].event_id # NULL
            /\ OwnedBy(ret[k].paymentId, params.hostUserId)

C1_Witness ==
    /\ sPc = "done"
    /\ Len(ret) > 0
    /\ \E i \in DOMAIN payments : payments[i].event_id = NULL
    /\ \E i \in DOMAIN payments :
           payments[i].event_id # NULL /\ ~OwnedBy(i, params.hostUserId)

\* C2 (as claimed): every result belongs to a payment whose attendee's first or last
\* name contains the search substring, compared case-insensitively; payments with no
\* attendee are not returned.
C2_ResultsMatchName ==
    sPc = "done" =>
        \A k \in 1..Len(ret) :
            LET a == payments[ret[k].paymentId].event_attendee_id
            IN  /\ a \in DOMAIN event_attendees
                /\ \/ ContainsCI(event_attendees[a].first_name, params.searchQuery)
                   \/ ContainsCI(event_attendees[a].last_name, params.searchQuery)

\* C3: the returned list is in the order of the fetched payment rows, which is by
\* created_at descending.
C3_OrderedByCreatedDesc ==
    sPc = "done" =>
        /\ Len(ret) = Len(rows)
        /\ \A k \in 1..Len(ret) : ret[k].paymentId = rows[k].payment_id
        /\ \A i, j \in 1..Len(ret) : i < j => CreatedAt(i) >= CreatedAt(j)

C3_Witness ==
    /\ sPc = "done"
    /\ Len(ret) >= 2
    /\ CreatedAt(1) > CreatedAt(2)
    /\ ret[1].paymentId > ret[2].paymentId

\* C4: at most 100 results are returned; they are the most recent of the host's
\* payments (the rows the statement's join and WHERE select): no omitted one is more
\* recent than a returned one, and none is omitted while fewer than 100 are returned;
\* the merge yields exactly one entry per fetched row.
C4_AtMostLimitMostRecent ==
    sPc = "done" =>
        LET Q == Joined(params.hostUserId)
        IN  /\ Len(ret) <= Limit
            /\ Len(ret) = Len(rows)
            /\ Cardinality(Returned) = Len(ret)
            /\ Returned \subseteq Q
            /\ Len(ret) = (IF Cardinality(Q) <= Limit THEN Cardinality(Q) ELSE Limit)
            /\ \A i \in Returned, j \in Q \ Returned :
                   payments[i].created_at >= payments[j].created_at

C4_Witness ==
    /\ sPc = "done"
    /\ Len(ret) = Limit
    /\ Cardinality(Joined(params.hostUserId)) > Limit

\* C5 (as claimed): a row with no matching attendee record, whether its
\* event_attendee_id is null or absent from the batch fetch, gets a placeholder
\* payerName, never a missing value.
C5_PlaceholderAlways ==
    sPc = "done" =>
        \A k \in 1..Len(rows) :
            rows[k].event_attendee_id \notin DOMAIN attendeeMap
                => /\ k \in DOMAIN ret
                   /\ ret[k].payerName # NullStr

\* C5 (amended): a row whose event_attendee_id is non-null but absent from the batch
\* fetch gets the placeholder "Attendee #<id>"; a row whose event_attendee_id is null
\* gets payerName null; in both cases the row is produced and the search does not fail.
C5_PlaceholderForUnknownId ==
    sPc = "done" =>
        /\ Len(ret) = Len(rows)
        /\ \A k \in 1..Len(rows) :
               LET a == rows[k].event_attendee_id
               IN  /\ (a # NULL /\ a \notin DOMAIN attendeeMap)
                       => ret[k].payerName = AttendeePrefix \o Digits(a)
                   /\ a = NULL => ret[k].payerName = NullStr
                   /\ a \in DOMAIN attendeeMap => ret[k].payerName # NullStr

C5_Witness ==
    /\ sPc = "done"
    /\ \E k \in 1..Len(rows) :
           rows[k].event_attendee_id # NULL
           /\ rows[k].event_attendee_id \notin DOMAIN attendeeMap
    /\ \E k \in 1..Len(rows) : rows[k].event_attendee_id = NULL

\* the attendee statements among those handed to query() so far
AttendeeStatements == {k \in 1..Len(queryLog) : queryLog[k].sql = AttendeesSql}

\* the non-null event_attendee_id values of the returned payment rows
IdsInRows == {rows[k].event_attendee_id : k \in 1..Len(rows)} \ {NULL}

\* C11: the attendee statement is issued only after the payments statement returned, at
\* most once per search, with exactly the distinct non-null event_attendee_id values of
\* the returned rows as its parameter, and not at all when there is no such value.
C11_AttendeeQueryAfterPayments ==
    /\ sPc = "payments" => AttendeeStatements = {}
    /\ Cardinality(AttendeeStatements) <= 1
    /\ \A k \in AttendeeStatements :
           /\ k = 2
           /\ queryLog[1].sql = PaymentsSql
           /\ LET ids == queryLog[k].args[1]
              IN  /\ {ids[j] : j \in 1..Len(ids)} = IdsInRows
                  /\ \A i, j \in 1..Len(ids) : i # j => ids[i] # ids[j]
    /\ (sPc \in {"attendees", "done"} /\ IdsInRows # {}) => AttendeeStatements # {}
    /\ (sPc \in {"attendees", "done"} /\ IdsInRows = {}) => AttendeeStatements = {}

C11_Witness ==
    /\ sPc = "done"
    /\ AttendeeStatements = {2}
    /\ \E i, j \in 1..Len(rows) :
           i # j /\ rows[i].event_attendee_id = rows[j].event_attendee_id
                 /\ rows[i].event_attendee_id # NULL
    /\ \E k \in 1..Len(rows) : rows[k].event_attendee_id = NULL

\* C12: when a statement fails, the caller gets the very error the pool raised, the
\* failed statement was handed to query() once, and nothing is returned.
C12_ErrorPropagatesAsIs ==
    /\ sPc = "failed" <=> thrown # "none"
    /\ sPc = "failed" =>
           /\ thrown = raised
           /\ raised \in PoolErrors
           /\ ret = <<>>
           /\ Len(queryLog) \in {1, 2}
           /\ queryLog[1].sql = PaymentsSql
           /\ Len(queryLog) = 2 => queryLog[2].sql = AttendeesSql

C12_Witness ==
    /\ sPc = "failed"
    /\ thrown = "relationMissing"
    /\ Len(queryLog) = 2
    /\ rows # <<>>

\* ------------------------------------------------------------------ seat-lookup page

IsSpace(c) == c \in {" ", "\n", "\t"}

\* String.prototype.trim
Trim(s) ==
    LET keep == {i \in 1..Len(s) : ~IsSpace(s[i])}
    IN  IF keep = {} THEN <<>>
        ELSE SubSeq(s, CHOOSE i \in keep : \A j \in keep : i <= j,
                       CHOOSE i \in keep : \A j \in keep : i >= j)

\* String.prototype.split(sep) for a one-character separator
Split(s, sep) ==
    LET cuts == {i \in 1..Len(s) : s[i] = sep}
        n == Cardinality(cuts) + 1
        \* position of the k-th separator; 0 before the first, Len(s)+1 after the last
        cut(k) == IF k = 0 THEN 0
                  ELSE IF k = n THEN Len(s) + 1
                  ELSE CHOOSE i \in cuts : Cardinality({j \in cuts : j <= i}) = k
    IN  [k \in 1..n |-> SubSeq(s, cut(k - 1) + 1, cut(k) - 1)]

IsDigit(c) == \E d \in 1..10 : Digit[d] = c
DigitValue(c) == (CHOOSE d \in 1..10 : Digit[d] = c) - 1

RECURSIVE DecimalValue(_)
DecimalValue(ds) ==
    IF ds = <<>> THEN 0
    ELSE 10 * DecimalValue(SubSeq(ds, 1, Len(ds) - 1)) + DigitValue(ds[Len(ds)])

NaN == [nan |-> TRUE, val |-> 0]
Num(n) == [nan |-> FALSE, val |-> n]

\* parseInt(s) of a string, or of undefined (a missing array element): leading white
\* space and one sign are skipped, the longest run of digits is read, NaN without one
ParseInt(s) ==
    LET ws == CHOOSE k \in 0..Len(s) :
                  /\ \A i \in 1..k : IsSpace(s[i])
                  /\ k < Len(s) => ~IsSpace(s[k + 1])
        signed == ws < Len(s) /\ s[ws + 1] \in {"-", "+"}
        start == IF signed THEN ws + 1 ELSE ws
        run == CHOOSE k \in 0..(Len(s) - start) :
                  /\ \A i \in 1..k : IsDigit(s[start + i])
                  /\ start + k < Len(s) => ~IsDigit(s[start + k + 1])
        v == DecimalValue(SubSeq(s, start + 1, start + run))
    IN  IF run = 0 THEN NaN
        ELSE IF signed /\ s[ws + 1] = "-" THEN Num(0 - v) ELSE Num(v)

ParseIntAt(parts, k) == IF k \in DOMAIN parts THEN ParseInt(parts[k]) ELSE NaN

\* new Date(year, monthIndex, day) at local midnight: Invalid Date when an argument is
\* NaN; a year 0..99 means 1900 + year; month and day overflow carry over
NewDate(y, mIdx, d) ==
    IF y.nan \/ mIdx.nan \/ d.nan THEN [valid |-> FALSE, day |-> 0]
    ELSE LET fullYear == IF y.val >= 0 /\ y.val <= 99 THEN 1900 + y.val ELSE y.val
             yy == fullYear + (mIdx.val \div 12)
             mm == (mIdx.val % 12) + 1
         IN  [valid |-> TRUE, day |-> DaysFromCivil(yy, mm, 1) + d.val - 1]

Minus1(x) == IF x.nan THEN NaN ELSE Num(x.val - 1)

\* the eventDateObj of one result (page.tsx 71-77, 192-198, 260-266, 278-284)
EventDateObj(r) ==
    LET eventDateParts == Split(r.eventStartDate, "/")
    IN  NewDate(ParseIntAt(eventDateParts, 3),
                Minus1(ParseIntAt(eventDateParts, 1)),
                ParseIntAt(eventDateParts, 2))

\* comparisons with an Invalid Date (NaN time value) are all false
IsToday(r) == EventDateObj(r).valid /\ EventDateObj(r).day = today
IsPast(r) == EventDateObj(r).valid /\ EventDateObj(r).day < today
IsFuture(r) == EventDateObj(r).valid /\ EventDateObj(r).day > today

\* the counters of the results card (page.tsx 255-275)
todayCount == Cardinality({k \in 1..Len(results) : IsToday(results[k])})
pastCount ==
    Cardinality({k \in 1..Len(results) : ~IsToday(results[k]) /\ IsPast(results[k])})
futureCount ==
    Cardinality({k \in 1..Len(results) :
        ~IsToday(results[k]) /\ ~IsPast(results[k]) /\ IsFuture(results[k])})

\* mutant of PassesFilter: either checkbox shows the past results
PassesFilterEitherCheckbox(r) ==
    \/ IsToday(r)
    \/ IsPast(r) /\ (showPastTransactions \/ showFutureTransactions)
    \/ IsFuture(r) /\ showFutureTransactions

\* the filter predicate of the display (page.tsx 277-300)
PassesFilter(r) ==
    \/ IsToday(r)
    \/ IsPast(r) /\ showPastTransactions
    \/ IsFuture(r) /\ showFutureTransactions

\* results.filter(...)
filteredResults == SelectSeq(results, PassesFilter)

\* mutant of ExportPassesFilter: the export leaves the past results out
ExportPassesFilterNoPast(r) ==
    \/ IsToday(r)
    \/ IsFuture(r) /\ showFutureTransactions

\* the filter predicate of exportToCSV (page.tsx 70-93)
ExportPassesFilter(r) ==
    \/ IsToday(r)
    \/ IsPast(r) /\ showPastTransactions
    \/ IsFuture(r) /\ showFutureTransactions

\* filteredResults of exportToCSV
exportFilteredResults == SelectSeq(results, ExportPassesFilter)

\* the paymentIds of the displayed results
ShownIds == {filteredResults[j].paymentId : j \in 1..Len(filteredResults)}

\* ---- what /api/seat-lookup may answer

\* results per response in the enumerated responses
MaxResults == 2

InvalidDate == <<"I", "n", "v", "a", "l", "i", "d", " ", "D", "a", "t", "e">>
DateStrings ==
    {FormatDate(FirstDay - 1), FormatDate(FirstDay), FormatDate(FirstDay + 1), InvalidDate}
PayerNames == {<<"A", "l">>, <<"O", "\"", "B">>}
StartTime == <<"0", "7", ":", "3", "0", " ", "P", "M">>
SearchInputs == {<<" ">>, <<"a", "n", " ">>}

ResponseRows == [eventStartDate : DateStrings, payerName : PayerNames]

\* data.results of a response: paymentId k is the k-th row
ResultsOf(rs) ==
    [k \in 1..Len(rs) |->
        [eventName |-> EventPrefix \o Digits(k),
         eventStartDate |-> rs[k].eventStartDate,
         eventStartTime |-> StartTime,
         paymentId |-> k,
         payerName |-> rs[k].payerName,
         seatInfo |-> NullStr]]

Responses == {ResultsOf(rs) : rs \in UNION {[1..n -> ResponseRows] : n \in 0..MaxResults}}

\* ---- CSV text

\* x || "" for an optional string
OrEmpty(x) == IF x = NullStr THEN <<>> ELSE x

RECURSIVE Join(_, _)
\* Array.prototype.join(sep) of an array of strings
Join(ss, sep) ==
    IF Len(ss) = 0 THEN <<>>
    ELSE IF Len(ss) = 1 THEN ss[1]
    ELSE Join(SubSeq(ss, 1, Len(ss) - 1), sep) \o sep \o ss[Len(ss)]

\* `"${cell}"`
Quoted(cell) == <<"\"">> \o cell \o <<"\"">>

CsvHeaders ==
    << <<"E", "v", "e", "n", "t", " ", "N", "a", "m", "e">>,
       <<"E", "v", "e", "n", "t", " ", "D", "a", "t", "e">>,
       <<"E", "v", "e", "n", "t", " ", "T", "i", "m", "e">>,
       <<"P", "a", "y", "m", "e", "n", "t", " ", "I", "D">>,
       <<"P", "a", "y", "e", "r", " ", "N", "a", "m", "e">>,
       <<"S", "e", "a", "t">> >>

\* the cells of one result (page.tsx 104-111)
CsvCells(r) ==
    <<r.eventName, r.eventStartDate, r.eventStartTime, Digits(r.paymentId),
      OrEmpty(r.payerName), OrEmpty(r.seatInfo)>>

CsvLine(cells) == Join([k \in 1..Len(cells) |-> Quoted(cells[k])], <<",">>)

\* csvContent of exportToCSV (page.tsx 65-115)
CsvText ==
    LET rws == [k \in 1..Len(exportFilteredResults) |-> CsvCells(exportFilteredResults[k])]
        all == <<CsvHeaders>> \o rws
    IN  Join([k \in 1..Len(all) |-> CsvLine(all[k])], <<"\n">>)

\* ---- handlers

\* onChange of the name input (disabled while loading)
SetSearchQuery(q) ==
    /\ ~isLoading
    /\ searchQuery' = q
    /\ csvContent' = NoCsv
    /\ toggled' = NoToggle
    /\ UNCHANGED <<results, isLoading, showPastTransactions, showFutureTransactions,
                   today, toasts, pending>>
    /\ UNCHANGED <<dbVars, searchVars, zipVars, panelVars>>

\* handleSearch with a blank query (Enter in the input): an error toast and return
HandleSearchBlank ==
    /\ ~isLoading
    /\ Trim(searchQuery) = <<>>
    /\ toasts' = [loading |-> FALSE, error |-> 1, success |-> 0]
    /\ csvContent' = NoCsv
    /\ toggled' = NoToggle
    /\ UNCHANGED <<searchQuery, results, isLoading, showPastTransactions,
                   showFutureTransactions, today, pending>>
    /\ UNCHANGED <<dbVars, searchVars, zipVars, panelVars>>

\* handleSearch up to its await: busy flag set, results cleared, request sent
HandleSearch ==
    /\ ~isLoading
    /\ Trim(searchQuery) # <<>>
    /\ isLoading' = TRUE
    /\ results' = <<>>
    /\ toasts' = [loading |-> TRUE, error |-> 0, success |-> 0]
    /\ pending' = pending + 1
    /\ csvContent' = NoCsv
    /\ toggled' = NoToggle
    /\ UNCHANGED <<searchQuery, showPastTransactions, showFutureTransactions, today>>
    /\ UNCHANGED <<dbVars, searchVars, zipVars, panelVars>>

\* the response is OK: setResults(data.results || []), loading toast dismissed, success
SearchSucceeds(rs) ==
    /\ pending > 0
    /\ results' = rs
    /\ toasts' = [loading |-> FALSE, error |-> 0, success |-> 1]
    /\ isLoading' = FALSE
    /\ pending' = pending - 1
    /\ csvContent' = NoCsv
    /\ toggled' = NoToggle
    /\ UNCHANGED <<searchQuery, showPastTransactions, showFutureTransactions, today>>
    /\ UNCHANGED <<dbVars, searchVars, zipVars, panelVars>>

\* fetch or response.json() throws, or the status is not OK: catch and finally
SearchFails ==
    /\ pending > 0
    /\ toasts' = [loading |-> FALSE, error |-> 1, success |-> 0]
    /\ isLoading' = FALSE
    /\ pending' = pending - 1
    /\ csvContent' = NoCsv
    /\ toggled' = NoToggle
    /\ UNCHANGED <<searchQuery, results, showPastTransactions, showFutureTransactions,
                   today>>
    /\ UNCHANGED <<dbVars, searchVars, zipVars, panelVars>>

\* the two checkboxes, rendered when there are results
TogglePast ==
    /\ Len(results) > 0
    /\ showPastTransactions' = ~showPastTransactions
    /\ csvContent' = NoCsv
    /\ toggled' = [box |-> "past", shown |-> ShownIds]
    /\ UNCHANGED <<searchQuery, results, isLoading, showFutureTransactions, today,
                   toasts, pending>>
    /\ UNCHANGED <<dbVars, searchVars, zipVars, panelVars>>

ToggleFuture ==
    /\ Len(results) > 0
    /\ showFutureTransactions' = ~showFutureTransactions
    /\ csvContent' = NoCsv
    /\ toggled' = [box |-> "future", shown |-> ShownIds]
    /\ UNCHANGED <<searchQuery, results, isLoading, showPastTransactions, today,
                   toasts, pending>>
    /\ UNCHANGED <<dbVars, searchVars, zipVars, panelVars>>

\* exportToCSV, from the button of the results card
ExportToCSV ==
    /\ Len(results) > 0
    /\ csvContent' = CsvText
    /\ toggled' = NoToggle
    /\ toasts' = [loading |-> toasts.loading, error |-> 0, success |-> 1]
    /\ UNCHANGED <<searchQuery, results, isLoading, showPastTransactions,
                   showFutureTransactions, today, pending>>
    /\ UNCHANGED <<dbVars, searchVars, zipVars, panelVars>>

\* midnight passes
NextDay ==
    /\ today + 1 \in Days
    /\ today' = today + 1
    /\ csvContent' = NoCsv
    /\ toggled' = NoToggle
    /\ UNCHANGED <<searchQuery, results, isLoading, showPastTransactions,
                   showFutureTransactions, toasts, pending>>
    /\ UNCHANGED <<dbVars, searchVars, zipVars, panelVars>>

InitPage ==
    /\ payments = <<>>
    /\ events = EventsTable
    /\ event_attendees = AttendeesTable
    /\ SearchIdle
    /\ PageFresh
    /\ QueryPageFresh
    /\ PoolFresh
    /\ StatementIdle
    /\ PanelFresh

NextPage ==
    \/ \E q \in SearchInputs : SetSearchQuery(q)
    \/ HandleSearchBlank
    \/ HandleSearch
    \/ \E rs \in Responses : SearchSucceeds(rs)
    \/ SearchFails
    \/ TogglePast
    \/ ToggleFuture
    \/ ExportToCSV
    \/ NextDay

SpecPage == InitPage /\ [][NextPage]_vars

\* ------------------------------------------------------------------ claims: page

\* a record separator of a CSV text is a line break outside quotes (RFC 4180): one
\* preceded by an even number of quote characters
CsvRecords(text) ==
    1 + Cardinality({i \in 1..Len(text) :
            /\ text[i] = "\n"
            /\ Cardinality({j \in 1..(i - 1) : text[j] = "\""}) % 2 = 0})

\* C6 (as claimed): each result is in exactly one of the buckets past, today, future,
\* so todayCount + pastCount + futureCount = results.length, also for results whose
\* eventStartDate does not parse.
C6_BucketsPartition ==
    /\ todayCount + pastCount + futureCount = Len(results)
    /\ \A k \in 1..Len(results) :
           Cardinality({b \in {"today", "past", "future"} :
               \/ b = "today" /\ IsToday(results[k])
               \/ b = "past" /\ IsPast(results[k])
               \/ b = "future" /\ IsFuture(results[k])}) = 1

MaxRows == 2

RowKinds ==
    {[transaction_id |-> <<"T", "1">>, id |-> 7],
     [transaction_id |-> <<"T", "2">>, id |-> 8],
     [transaction_id |-> NullStr, id |-> 9],
     [transaction_id |-> NullStr, id |-> NULL]}

Datasets == UNION {[1..n -> RowKinds] : n \in 0..MaxRows}

\* what one fetch-zip call may come to
ZipBodies == {"bodyNull", "results", "errors", "both", "neither"}

RowPrefix == <<"r", "o", "w", "_">>

\* row.transaction_id || row.id || `row_${i}` for the row at 1-based position k
TransactionId(row, k) ==
    IF row.transaction_id # NullStr /\ row.transaction_id # <<>> THEN row.transaction_id
    ELSE IF row.id # NULL /\ row.id # 0 THEN Digits(row.id)
    ELSE RowPrefix \o Digits(k - 1)

\* the entry pushed on results (part_002 423-436)
ResultEntry(row, k, zip) ==
    [transactionId |-> TransactionId(row, k),
     zipCode |-> zip,
     paymentId |-> row.id,
     fullResponse |-> row]

ErrorEntry(row, k, message) == [transactionId |-> TransactionId(row, k), error |-> message]

\* Math.round((i / n) * 100) for the code's 0-based i
ProgressAt(i, n) == (200 * i + n) \div (2 * n)

\* mutant of LoopNext: an exception of the lookup ends the loop
LoopNextAbortOnThrow(k, threw, n) == IF threw THEN n + 1 ELSE k + 1

\* the position the for loop goes to after row k, whether or not its lookup threw
LoopNext(k, threw, n) == k + 1

\* mutant of PushResult: a row whose lookup recorded an error is not pushed
PushResultUnlessError(res, errs, row, k, zip) ==
    IF \E j \in 1..Len(errs) : errs[j].transactionId = TransactionId(row, k)
    THEN res ELSE Append(res, ResultEntry(row, k, zip))

\* results.push({...}) at the end of each iteration (part_002 423-436)
PushResult(res, errs, row, k, zip) == Append(res, ResultEntry(row, k, zip))

\* mutant of Published: the state is set to the row pushed last alone
PublishedLastOnly(list) == IF list = <<>> THEN <<>> ELSE <<list[Len(list)]>>

\* setResults([...results]), setErrors([...errors]): the state becomes a copy of the array
Published(list) == list

LoadingToast == [kind |-> "loading", successful |-> 0, failed |-> 0, withFailed |-> FALSE]
ErrorToast == [kind |-> "error", successful |-> 0, failed |-> 0, withFailed |-> FALSE]

\* the end of processZipCodesFromData (part_002 443-450) and the caller's finally
FinishRun(res, errs, shown) ==
    /\ qToasts' = [loading |-> FALSE, error |-> shown.error, success |-> shown.success + 1]
    /\ runs' = runs - 1
    /\ progress' = 100
    /\ qToast' = [kind |-> "success", successful |-> Len(res), failed |-> Len(errs),
                  withFailed |-> zCheck]
    /\ isProcessing' = FALSE
    /\ zPc' = "finished"

\* events of the ZIP loop: a request is sent, a request has settled (answered and its
\* body read, or rejected), the 100 ms delay has been awaited
Started(k) == [ev |-> "started", row |-> k]
Settled(k) == [ev |-> "settled", row |-> k]
Delayed(k) == [ev |-> "delayed", row |-> k]

\* the end of one iteration with ZIP checking on: the row is pushed, both states are
\* set, and the loop goes on to the next fetch or ends
AfterRow(zip, errs, outs, threw, evs) ==
    LET res == PushResult(locResults, errs, zData[zi], zi, zip)
        next == LoopNext(zi, threw, Len(zData))
    IN  /\ zTrace' = IF next <= Len(zData)
                      THEN zTrace \o evs \o <<Started(next)>>
                      ELSE zTrace \o evs
        /\ locResults' = res
        /\ locErrors' = errs
        /\ qResults' = Published(res)
        /\ qErrors' = Published(errs)
        /\ outcomes' = outs
        /\ zi' = next
        /\ zipCode' = "-"
        /\ IF next <= Len(zData)
           THEN /\ progress' = ProgressAt(next - 1, Len(zData))
                /\ zPc' = "fetch"
                /\ UNCHANGED <<qToast, isProcessing, runs, qToasts>>
           ELSE FinishRun(res, errs, qToasts)
        /\ UNCHANGED <<checkZips, zCheck, zData, calls>>
        /\ UNCHANGED <<generatedSQL, zSource, inputVars>>
        /\ UNCHANGED <<dbVars, searchVars, pageVars, formVars, chartVars>>

\* the Check ZIPs switch
SetCheckZips ==
    /\ checkZips' = ~checkZips
    /\ UNCHANGED <<isProcessing, progress, qResults, qErrors, qToast, zPc, zCheck, zData,
                   zi, locResults, locErrors, zipCode, outcomes>>
    /\ UNCHANGED <<dbVars, searchVars, pageVars, panelVars>>

\* the three data-source tabs (their buttons are never disabled)
DataSources == {"sql", "wizard", "form"}

SetDataSource(source) ==
    /\ dataSource' = source
    /\ UNCHANGED <<sqlQuery, naturalLanguageQuery, runVars, formVars, chartVars, traceVars>>
    /\ UNCHANGED <<dbVars, searchVars, pageVars, zipVars>>

\* what is typed into the SQL box and into the wizard box
QueryInputs == {<<" ">>, <<"S", " ">>}

\* the SQL textarea (disabled while processing)
SetSqlQuery(q) ==
    /\ ~isProcessing
    /\ sqlQuery' = q
    /\ UNCHANGED <<dataSource, naturalLanguageQuery, runVars, formVars, chartVars, traceVars>>
    /\ UNCHANGED <<dbVars, searchVars, pageVars, zipVars>>

\* the wizard textarea (disabled while processing)
SetNaturalLanguageQuery(q) ==
    /\ ~isProcessing
    /\ naturalLanguageQuery' = q
    /\ UNCHANGED <<dataSource, sqlQuery, runVars, formVars, chartVars, traceVars>>
    /\ UNCHANGED <<dbVars, searchVars, pageVars, zipVars>>

\* mutant of ProcessDisabled: the Process button is never disabled
ProcessNeverDisabled == FALSE

\* disabled={...} of the Process button (part_002 1158-1165)
ProcessDisabled ==
    \/ isProcessing
    \/ dataSource = "sql" /\ Trim(sqlQuery) = <<>>
    \/ dataSource = "wizard" /\ Trim(naturalLanguageQuery) = <<>>

\* a request sent to an endpoint with the text of its body (that of a form run is
\* held by formSql and left empty here), the answer of an endpoint with the sql text of
\* its body, and a request that failed
Requested(api, text) == [ev |-> "requested", api |-> api, text |-> text]
Answered(api, text) == [ev |-> "answered", api |-> api, text |-> text]
Failed(api) == [ev |-> "failed", api |-> api, text |-> <<>>]
\* an OK answer whose body holds no results array
Malformed(api) == [ev |-> "malformed", api |-> api, text |-> <<>>]

\* what every handler does before its first await: busy flag, cleared results, loading
\* toast, and the locals of a run not yet in processZipCodesFromData
StartRun(source) ==
    /\ zSource' = source
    /\ runs' = runs + 1
    /\ qToasts' = [loading |-> TRUE, error |-> 0, success |-> 0]
    /\ isProcessing' = TRUE
    /\ qResults' = <<>>
    /\ qErrors' = <<>>
    /\ progress' = 0
    /\ qToast' = LoadingToast
    /\ zCheck' = checkZips
    /\ zData' = <<>>
    /\ zi' = 0
    /\ locResults' = <<>>
    /\ locErrors' = <<>>
    /\ zipCode' = "-"
    /\ outcomes' = <<>>
    /\ zTrace' = <<>>

\* the Process button with the SQL tab open: processFromSQL up to its first await
ProcessFromSQL ==
    /\ ~ProcessDisabled
    /\ dataSource = "sql"
    /\ Trim(sqlQuery) # <<>>
    /\ StartRun("sql")
    /\ calls' = <<Requested("execute-sql", Trim(sqlQuery))>>
    /\ zPc' = "sql"
    /\ UNCHANGED <<checkZips, generatedSQL, inputVars>>
    /\ UNCHANGED <<dbVars, searchVars, pageVars, formVars, chartVars>>

\* the Process button with the wizard tab open: processFromWizard up to its first await
ProcessFromWizard ==
    /\ ~ProcessDisabled
    /\ dataSource = "wizard"
    /\ Trim(naturalLanguageQuery) # <<>>
    /\ StartRun("wizard")
    /\ calls' = <<Requested("nl-to-sql", Trim(naturalLanguageQuery))>>
    /\ zPc' = "nl"
    /\ UNCHANGED <<checkZips, generatedSQL, inputVars>>
    /\ UNCHANGED <<dbVars, searchVars, pageVars, formVars, chartVars>>

\* the ways a request of a handler fails: fetch rejects, the body is not JSON, the
\* status is not OK (the endpoint reports its error so), and, in executeSQL only, the
\* body has no results array
FailureKinds == {"fetchThrows", "jsonThrows", "notOk", "invalidFormat"}

\* mutant of CatchToasts: the catch block shows no toast
CatchToastsSilent(shown) == [loading |-> FALSE, error |-> shown.error, success |-> shown.success]

\* catch (error) { toast.dismiss("processing"); toast.error(...) }
CatchToasts(shown) == [loading |-> FALSE, error |-> shown.error + 1, success |-> shown.success]

\* mutant of IsProcessingAfterCatch: the busy flag is left set
IsProcessingLeftSet == TRUE

\* setIsProcessing(false) in the finally of processFromSQL and in the catch blocks of
\* processFromWizard and processFromForm
IsProcessingAfterCatch == FALSE

\* the catch block of a handler, with the finally of processFromSQL or the two setters
\* that end the catch blocks of processFromWizard and processFromForm
RunFails ==
    /\ qToasts' = CatchToasts(qToasts)
    /\ runs' = runs - 1
    /\ qToast' = ErrorToast
    /\ isProcessing' = IsProcessingAfterCatch
    /\ progress' = 100
    /\ zPc' = "failed"
    /\ UNCHANGED <<checkZips, qResults, qErrors, zCheck, zData, zi, locResults, locErrors,
                   zipCode, outcomes>>
    /\ UNCHANGED <<generatedSQL, zSource, inputVars, formVars, chartVars, zTrace>>
    /\ UNCHANGED <<dbVars, searchVars, pageVars>>

\* nl-to-sql fails
NlFails(kind) ==
    /\ zPc = "nl"
    /\ kind \in FailureKinds \ {"invalidFormat"}
    /\ calls' = Append(calls, Failed("nl-to-sql"))
    /\ RunFails

\* the sql texts nl-to-sql answers with
GeneratedSqls == {<<"S", "1">>, <<"S", "2">>}

\* mutant of ExecutedSql: executeSQL is given the generatedSQL state of the closure
ExecutedSqlFromState(sql) == generatedSQL

\* the argument of executeSQL in processFromWizard: nlData.sql
ExecutedSql(sql) == sql

\* nl-to-sql answers: setGeneratedSQL, the loading toast is replaced, executeSQL is called
NlReturns(sql, warning) ==
    /\ zPc = "nl"
    /\ warning \in BOOLEAN
    /\ generatedSQL' = sql
    /\ calls' = calls \o <<Answered("nl-to-sql", sql),
                            Requested("execute-sql", ExecutedSql(sql))>>
    /\ qToasts' = [loading |-> TRUE, error |-> qToasts.error, success |-> qToasts.success]
    /\ zPc' = "sql"
    /\ UNCHANGED <<checkZips, isProcessing, progress, qResults, qErrors, qToast, zCheck,
                   zData, zi, locResults, locErrors, zipCode, outcomes>>
    /\ UNCHANGED <<zSource, runs, inputVars, formVars, chartVars, zTrace>>
    /\ UNCHANGED <<dbVars, searchVars, pageVars>>

\* execute-sql fails, in processFromSQL or in executeSQL, which rethrows
SqlFails(kind) ==
    /\ zPc = "sql"
    /\ kind \in FailureKinds
    /\ kind = "invalidFormat" => zSource # "sql"
    /\ calls' = Append(calls, Failed("execute-sql"))
    /\ RunFails

\* execute-sql answers OK with a body that has no results array, in processFromSQL,
\* which does not test the body: a modified query is announced, data.results.length
\* throws in processZipCodesFromData, and the catch and finally blocks run
SqlMalformed(modified) ==
    /\ zPc = "sql"
    /\ zSource = "sql"
    /\ calls' = Append(calls, Malformed("execute-sql"))
    /\ qToasts' = CatchToasts([loading |-> zCheck, error |-> qToasts.error,
                               success |-> IF modified THEN qToasts.success + 1
                                           ELSE qToasts.success])
    /\ runs' = runs - 1
    /\ qToast' = ErrorToast
    /\ isProcessing' = IsProcessingAfterCatch
    /\ progress' = 100
    /\ zPc' = "failed"
    /\ UNCHANGED <<checkZips, qResults, qErrors, zCheck, zData, zi, locResults, locErrors,
                   zipCode, outcomes>>
    /\ UNCHANGED <<generatedSQL, zSource, inputVars, formVars, chartVars, zTrace>>
    /\ UNCHANGED <<dbVars, searchVars, pageVars>>

\* execute-sql answers with rows (in processFromSQL a modified query is announced by a
\* success toast): processZipCodesFromData runs to its first await, or, without ZIP
\* checking, to its end
SqlReturns(data, modified) ==
    /\ zPc = "sql"
    /\ modified => zSource = "sql"
    /\ zData' = data
    /\ calls' = Append(calls, Answered("execute-sql", <<>>))
    /\ LET shown == [loading |-> zCheck, error |-> qToasts.error,
                     success |-> IF modified THEN qToasts.success + 1 ELSE qToasts.success]
       IN  IF zCheck /\ Len(data) > 0
           THEN /\ zi' = 1
                /\ zTrace' = <<Started(1)>>
                /\ progress' = ProgressAt(0, Len(data))
                /\ qToast' = LoadingToast
                /\ qToasts' = shown
                /\ zPc' = "fetch"
                /\ UNCHANGED <<isProcessing, qResults, qErrors, locResults, locErrors, runs>>
           ELSE LET res == [k \in 1..Len(data) |-> ResultEntry(data[k], k, "-")]
                IN  /\ zi' = Len(data) + 1
                    /\ locResults' = res
                    /\ qResults' = Published(res)
                    /\ locErrors' = <<>>
                    /\ qErrors' = Published(<<>>)
                    /\ zTrace' = zTrace
                    /\ FinishRun(res, <<>>, shown)
    /\ UNCHANGED <<checkZips, zCheck, zipCode, outcomes>>
    /\ UNCHANGED <<generatedSQL, zSource, inputVars, formVars, chartVars>>
    /\ UNCHANGED <<dbVars, searchVars, pageVars>>

\* the catch block of the lookup: the error is pushed, then the row; the delay, which
\* stands inside the try block, is not awaited
Caught(outcome, message) ==
    AfterRow("-", Append(locErrors, ErrorEntry(zData[zi], zi, message)),
             Append(outcomes, outcome), TRUE,
             <<Settled(zi)>>)

\* await fetch("/api/fetch-zip") rejects
FetchThrows ==
    /\ zPc = "fetch"
    /\ Caught("fetchThrows", "network")

\* await fetch("/api/fetch-zip") resolves: the body is awaited
FetchResponds ==
    /\ zPc = "fetch"
    /\ zPc' = "json"
    /\ UNCHANGED <<checkZips, isProcessing, progress, qResults, qErrors, qToast, zCheck,
                   zData, zi, locResults, locErrors, zipCode, outcomes>>
    /\ UNCHANGED <<dbVars, searchVars, pageVars, panelVars>>

\* await zipResponse.json() rejects
JsonThrows ==
    /\ zPc = "json"
    /\ Caught("jsonThrows", "invalid json")

\* await zipResponse.json() resolves with a body; a null body makes zipData.results
\* throw, which the catch block handles; otherwise the delay is awaited
JsonParsed(body) ==
    /\ zPc = "json"
    /\ IF body = "bodyNull"
       THEN Caught("bodyNull", "type error")
       ELSE /\ zipCode' = IF body \in {"results", "both"} THEN "90210" ELSE zipCode
            /\ locErrors' = IF body = "errors"
                            THEN Append(locErrors, ErrorEntry(zData[zi], zi, "api error"))
                            ELSE locErrors
            /\ outcomes' = Append(outcomes, body)
            /\ zTrace' = Append(zTrace, Settled(zi))
            /\ zPc' = "delay"
            /\ UNCHANGED <<checkZips, isProcessing, progress, qResults, qErrors, qToast,
                           zCheck, zData, zi, locResults, calls>>
            /\ UNCHANGED <<dbVars, searchVars, pageVars, formVars, chartVars, inputVars, runVars>>

\* the 100 ms delay is over: the row is pushed and the loop goes on
DelayElapsed ==
    /\ zPc = "delay"
    /\ AfterRow(zipCode, locErrors, outcomes, FALSE, <<Delayed(zi)>>)

InitZip ==
    /\ payments = <<>>
    /\ events = EventsTable
    /\ event_attendees = AttendeesTable
    /\ SearchIdle
    /\ PageFresh
    /\ QueryPageFresh
    /\ PoolFresh
    /\ StatementIdle
    /\ PanelFresh

NextZip ==
    \/ SetCheckZips
    \/ \E q \in QueryInputs : SetSqlQuery(q)
    \/ ProcessFromSQL
    \/ \E kind \in FailureKinds : SqlFails(kind)
    \/ \E data \in Datasets, modified \in BOOLEAN : SqlReturns(data, modified)
    \/ FetchThrows
    \/ FetchResponds
    \/ JsonThrows
    \/ \E body \in ZipBodies : JsonParsed(body)
    \/ DelayElapsed

SpecZip == InitZip /\ [][NextZip]_vars

\* ------------------------------------------------------------------ claims: ZIP run

RowTx(k) == TransactionId(zData[k], k)

\* the rows, in order, whose lookup is a failure of one of the given kinds
FailedRows(kinds) ==
    SelectSeq([k \in 1..Len(qResults) |-> k],
              LAMBDA k : k <= Len(outcomes) /\ outcomes[k] \in kinds)

\* C8 (as claimed): with ZIP checking on, a row whose lookup fails (the fetch or the
\* JSON parse throws, or the response carries an errors entry) is in results with
\* zipCode "-", and errors holds an entry with its transactionId.
C8_FailedRowKeptAndReported ==
    \A k \in 1..Len(qResults) :
        (k <= Len(outcomes) /\ outcomes[k] \in {"fetchThrows", "jsonThrows", "errors", "both"})
            => /\ qResults[k].transactionId = RowTx(k)
               /\ qResults[k].zipCode = "-"
               /\ \E j \in 1..Len(qErrors) : qErrors[j].transactionId = RowTx(k)

\* C8 (amended): with ZIP checking on, a row whose lookup throws (fetch, JSON parse,
\* reading the body) or whose response carries an errors entry and no results entry is
\* in results, at its own position, with zipCode "-"; the errors list holds exactly one
\* entry per such row, in row order, with that row's transactionId.
C8_FailedRowKept ==
    LET failed == FailedRows({"fetchThrows", "jsonThrows", "bodyNull", "errors"})
    IN  /\ \A k \in 1..Len(qResults) :
               (k <= Len(outcomes)
                    /\ outcomes[k] \in {"fetchThrows", "jsonThrows", "bodyNull", "errors"})
                   => /\ qResults[k].transactionId = RowTx(k)
                      /\ qResults[k].fullResponse = zData[k]
                      /\ qResults[k].zipCode = "-"
        /\ Len(qErrors) = Len(failed)
        /\ \A j \in 1..Len(failed) : qErrors[j].transactionId = RowTx(failed[j])

C8_Witness ==
    /\ zPc = "finished"
    /\ zCheck
    /\ Len(qResults) >= 2
    /\ \E k \in 1..Len(outcomes) : outcomes[k] = "errors"
    /\ \E k \in 1..Len(outcomes) : outcomes[k] \in {"fetchThrows", "jsonThrows"}

\* C9: a failed lookup never aborts the batch: a run that received n rows can only end
\* by finishing, with results holding exactly one entry per input row, in input order,
\* whatever the lookups came to.
C9_BatchNeverAborted ==
    /\ zPc = "finished" =>
           /\ Len(qResults) = Len(zData)
           /\ \A k \in 1..Len(zData) :
                  /\ qResults[k].transactionId = RowTx(k)
                  /\ qResults[k].fullResponse = zData[k]
           /\ zCheck => Len(outcomes) = Len(zData)
    /\ zPc = "failed" => (zData = <<>> /\ outcomes = <<>>)
    /\ zPc \in {"fetch", "json", "delay"} => (isProcessing /\ zi \in 1..Len(zData))

C9_Witness ==
    /\ zPc = "finished"
    /\ zCheck
    /\ Len(zData) >= 2
    /\ outcomes[1] \in {"fetchThrows", "jsonThrows", "bodyNull"}
    /\ outcomes[2] = "results"
    /\ qResults[2].zipCode = "90210"

\* ------------------------------------------------------------------ connection pool

\* the statement texts callers hand to query()
Statements == {"SELECT", "UPDATE"}

SetReadOnly == [kind |-> "setReadOnly", text |-> "SET default_transaction_read_only = on"]
SetTimeout == [kind |-> "setTimeout", text |-> "SET statement_timeout = 30000"]
UserStatement(text) == [kind |-> "user", text |-> text]

Present(c) == clients[c].state # "absent"
Idle(c) == clients[c].state = "idle"
HeadKind(c) ==
    IF Present(c) /\ clients[c].queue # <<>> THEN clients[c].queue[1].kind ELSE "none"

\* getDb: the pool is created on first use and reused afterwards
GetDb(p) == IF p = "null" THEN "open" ELSE p

\* mutant of Constructs: getDb builds a Pool on every call
ConstructsAlways(p) == TRUE

\* if (!pool): getDb runs new Pool(config) and registers the two handlers
Constructs(p) == p = "null"

\* one call of getDb, by query() or by another caller
Acquire ==
    /\ Constructs(pool) => constructed < MaxPools
    /\ pool' = GetDb(pool)
    /\ constructed' = IF Constructs(pool) THEN constructed + 1 ELSE constructed
    /\ instance' = IF Constructs(pool) THEN constructed + 1 ELSE instance
    /\ registered' = IF Constructs(pool)
                     THEN Append(registered, [connect |-> 1, error |-> 1])
                     ELSE registered
    /\ sinceClose' = IF Constructs(pool) THEN sinceClose + 1 ELSE sinceClose
    /\ handed' = handed \cup {instance'}
    /\ endCalls' = IF Constructs(pool) THEN Append(endCalls, 0) ELSE endCalls
    /\ returnedEnding' = (returnedEnding \/ (~Constructs(pool) /\ endCalls[instance] > 0))
    /\ UNCHANGED closing

\* getDb called directly
GetDbCall ==
    /\ Acquire
    /\ UNCHANGED <<clients, executed, warnings, ending>>
    /\ UNCHANGED <<tables, stmtVars, searchVars, pageVars, zipVars, panelVars>>

\* the connect handler up to its first await: the read-only SET is queued on the new
\* client before the pool hands the client to the waiting query
OnConnect == <<SetReadOnly>>

\* what the handler does with a failed read-only SET: warn and carry on
OnSetFailure(client) == [client EXCEPT !.queue = Append(Tail(@), SetTimeout)]

\* query(): db.query on an idle pooled connection
QueryOnIdleClient(text) ==
    /\ ~ending
    /\ Len(executed) + Cardinality({c \in 1..MaxClients : clients[c].state = "busy"})
           < MaxQueries
    /\ \E c \in 1..MaxClients :
           /\ Idle(c)
           /\ Acquire
           /\ clients' = [clients EXCEPT ![c].state = "busy",
                                         ![c].queue = Append(@, UserStatement(text))]
    /\ UNCHANGED <<executed, warnings, ending>>
    /\ UNCHANGED <<tables, stmtVars, searchVars, pageVars, zipVars, panelVars>>

\* query(): no connection is idle, the pool opens a new one; 'connect' is emitted, then
\* the statement is queued on the client
QueryOnNewClient(text) ==
    /\ ~ending
    /\ Len(executed) + Cardinality({c \in 1..MaxClients : clients[c].state = "busy"})
           < MaxQueries
    /\ \A c \in 1..MaxClients : ~Idle(c)
    /\ \E c \in 1..MaxClients :
           /\ ~Present(c)
           /\ \A d \in 1..(c - 1) : Present(d)
           /\ Acquire
           /\ clients' = [clients EXCEPT
                  ![c] = [state |-> "busy", readOnly |-> FALSE,
                          queue |-> Append(OnConnect, UserStatement(text))]]
    /\ UNCHANGED <<executed, warnings, ending>>
    /\ UNCHANGED <<tables, stmtVars, searchVars, pageVars, zipVars, panelVars>>

\* the server completes the read-only SET; the handler goes on to the timeout SET
SetReadOnlySucceeds(c) ==
    /\ HeadKind(c) = "setReadOnly"
    /\ clients' = [clients EXCEPT ![c].readOnly = TRUE,
                                  ![c].queue = Append(Tail(@), SetTimeout)]
    /\ UNCHANGED <<pool, executed, warnings>>
    /\ UNCHANGED <<lazyVars, ending>>
    /\ UNCHANGED <<tables, stmtVars, searchVars, pageVars, zipVars, panelVars>>

\* the read-only SET fails: the catch warns, the handler goes on to the timeout SET
SetReadOnlyFails(c) ==
    /\ HeadKind(c) = "setReadOnly"
    /\ clients' = [clients EXCEPT ![c] = OnSetFailure(clients[c])]
    /\ warnings' = warnings \cup {"Could not set read-only mode"}
    /\ UNCHANGED <<pool, executed>>
    /\ UNCHANGED <<lazyVars, ending>>
    /\ UNCHANGED <<tables, stmtVars, searchVars, pageVars, zipVars, panelVars>>

\* the timeout SET completes, or fails and is warned about
SetTimeoutSettles(c, ok) ==
    /\ HeadKind(c) = "setTimeout"
    /\ clients' = [clients EXCEPT ![c].queue = Tail(@)]
    /\ warnings' = IF ok THEN warnings
                   ELSE warnings \cup {"Could not set statement_timeout"}
    /\ UNCHANGED <<pool, executed>>
    /\ UNCHANGED <<lazyVars, ending>>
    /\ UNCHANGED <<tables, stmtVars, searchVars, pageVars, zipVars, panelVars>>

\* the server runs a statement of query(); the result (rows, or the error query()
\* rethrows) goes to the caller and the pool takes the client back
UserStatementRuns(c, ok) ==
    /\ HeadKind(c) = "user"
    /\ ok \in BOOLEAN
    /\ executed' = Append(executed, [text |-> clients[c].queue[1].text,
                                     readOnly |-> clients[c].readOnly])
    /\ clients' = [clients EXCEPT ![c].state = "idle", ![c].queue = Tail(@)]
    /\ UNCHANGED <<pool, warnings>>
    /\ UNCHANGED <<lazyVars, ending>>
    /\ UNCHANGED <<tables, stmtVars, searchVars, pageVars, zipVars, panelVars>>

\* idleTimeoutMillis: the pool drops a connection that stayed idle
IdleTimeout(c) ==
    /\ Idle(c)
    /\ clients[c].queue = <<>>
    /\ clients' = [clients EXCEPT ![c] = NoClient]
    /\ UNCHANGED <<pool, executed, warnings>>
    /\ UNCHANGED <<lazyVars, ending>>
    /\ UNCHANGED <<tables, stmtVars, searchVars, pageVars, zipVars, panelVars>>

\* if (pool) of closeDb: end() is called on whatever Pool the variable holds
EndsPool(p) == p # "null"

\* closeDb up to await pool.end(): end() is called; on a Pool already ending pg rejects
\* the call ("Called end on pool more than once") and closeDb throws before it
\* touches pool
CloseDbCall ==
    /\ EndsPool(pool)
    /\ endCalls[instance] < MaxEndCalls
    /\ endCalls' = [endCalls EXCEPT ![instance] = @ + 1]
    /\ IF ~ending
       THEN ending' = TRUE /\ closing' = instance
       ELSE UNCHANGED <<ending, closing>>
    /\ UNCHANGED <<pool, clients, executed, warnings, instance, constructed, registered,
                   handed, sinceClose, returnedEnding>>
    /\ UNCHANGED <<tables, stmtVars, searchVars, pageVars, zipVars, panelVars>>

\* pool.end() resolves once every client is back and closed; closeDb sets pool = null
CloseDbDone ==
    /\ ending
    /\ \A c \in 1..MaxClients : clients[c].state # "busy" /\ clients[c].queue = <<>>
    /\ pool' = "null"
    /\ instance' = 0
    /\ clients' = [c \in 1..MaxClients |-> NoClient]
    /\ ending' = FALSE
    /\ handed' = {}
    /\ sinceClose' = 0
    /\ closing' = 0
    /\ UNCHANGED <<executed, warnings, constructed, registered, endCalls, returnedEnding>>
    /\ UNCHANGED <<tables, stmtVars, searchVars, pageVars, zipVars, panelVars>>

InitPool ==
    /\ payments = <<>>
    /\ events = EventsTable
    /\ event_attendees = AttendeesTable
    /\ SearchIdle
    /\ PageFresh
    /\ QueryPageFresh
    /\ PoolFresh
    /\ StatementIdle
    /\ PanelFresh

NextPool ==
    \/ \E text \in Statements : QueryOnIdleClient(text)
    \/ \E text \in Statements : QueryOnNewClient(text)
    \/ \E c \in 1..MaxClients : SetReadOnlySucceeds(c)
    \/ \E c \in 1..MaxClients : SetReadOnlyFails(c)
    \/ \E c \in 1..MaxClients, ok \in BOOLEAN : SetTimeoutSettles(c, ok)
    \/ \E c \in 1..MaxClients, ok \in BOOLEAN : UserStatementRuns(c, ok)
    \/ \E c \in 1..MaxClients : IdleTimeout(c)
    \/ GetDbCall
    \/ CloseDbCall
    \/ CloseDbDone

SpecPool == InitPool /\ [][NextPool]_vars

\* ------------------------------------------------------------------ claims: pool

\* C10: every statement executed through query() ran on a connection on which the
\* read-only SET had already completed successfully, whatever the interleaving and
\* whether or not the SET failed.
C10_StatementsRunReadOnly ==
    \A k \in 1..Len(executed) : executed[k].readOnly


\* ------------------------------------------------------------------ form tab: SQL builder

\* SQL text as a sequence of tokens: keywords, tables with their alias, column
\* references with the alias they are prefixed with, operators and literals
Token(t, alias, v, n, chars) == [t |-> t, alias |-> alias, v |-> v, n |-> n, chars |-> chars]
Kw(word) == Token(word, "", "", 0, <<>>)
Table(name, alias) == Token("table", alias, name, 0, <<>>)
Col(alias, name) == Token("col", alias, name, 0, <<>>)
\* a column reference whose name is held as characters
ColChars(alias, name) == Token("col", alias, "", 0, name)
Op(sym) == Token("op", "", sym, 0, <<>>)
Str(text) == Token("str", "", text, 0, <<>>)
\* '${dateTo} 23:59:59'
StrEndOfDay(text) == Token("str 23:59:59", "", text, 0, <<>>)
Raw(text) == Token("raw", "", text, 0, <<>>)
RawChars(text) == Token("raw", "", "", 0, text)
Number(k) == Token("num", "", "", k, <<>>)
NaNLiteral == Token("raw", "", "NaN", 0, <<>>)

\* the options of the table select (part_002 772-780)
TableOptions ==
    {"payments_fdw", "events_fdw", "users_fdw", "payments_with_events",
     "payments_with_users"}

\* selectedTable.includes("payments")
IncludesPayments(table) ==
    table \in {"payments_fdw", "payments_with_events", "payments_with_users"}

PaymentColumns ==
    <<"id", "transaction_id", "event_id", "amount", "status", "card_type", "last_four",
      "created_at", "updated_at", "user_id", "payment_gateway_id">>

SelectPayments == [k \in 1..Len(PaymentColumns) |-> Col("p", PaymentColumns[k])]

\* SELECT p.…, e.user_id as host_user_id FROM payments_fdw p LEFT JOIN events_fdw e ON …
EventsJoinSql ==
    <<Kw("SELECT")>> \o SelectPayments \o
    <<Col("e", "user_id"), Kw("FROM"), Table("payments_fdw", "p"), Kw("LEFT JOIN"),
      Table("events_fdw", "e"), Kw("ON"), Col("p", "event_id"), Op("="), Col("e", "id")>>

\* SELECT p.…, CONCAT(u.first_name, ' ', u.last_name) as full_name, u.email FROM
\* payments_fdw p LEFT JOIN users_fdw u ON p.user_id = u.id
UsersJoinSql ==
    <<Kw("SELECT")>> \o SelectPayments \o
    <<Col("u", "first_name"), Col("u", "last_name"), Col("u", "email"), Kw("FROM"),
      Table("payments_fdw", "p"), Kw("LEFT JOIN"), Table("users_fdw", "u"), Kw("ON"),
      Col("p", "user_id"), Op("="), Col("u", "id")>>

\* needsEventsJoin (part_002 238-250)
NeedsEventsJoin(table, f) ==
    \/ table = "payments_with_events"
    \/ table # "payments_with_users" /\ IncludesPayments(table) /\ f.hostUserId # <<>>

\* the statement up to its FROM clause (part_002 240-250)
SelectFrom(table, f) ==
    IF table = "payments_with_events" THEN EventsJoinSql
    ELSE IF table = "payments_with_users" THEN UsersJoinSql
    ELSE IF IncludesPayments(table) /\ f.hostUserId # <<>> THEN EventsJoinSql
    ELSE <<Kw("SELECT"), Kw("*"), Kw("FROM"), Table(table, "")>>

\* tablePrefix (part_002 254-259) and the ORDER BY prefix (304-308)
TablePrefix(table, f) ==
    IF table = "payments_with_events" \/ table = "payments_with_users"
          \/ NeedsEventsJoin(table, f)
    THEN "p" ELSE ""

ParsedLiteral(s) == IF ParseInt(s).nan THEN NaNLiteral ELSE Number(ParseInt(s).val)

\* the conditions array (part_002 253-297): one entry per set filter, in code order
Conditions(table, f) ==
    LET px == TablePrefix(table, f)
        One(on, cond) == IF on THEN <<cond>> ELSE <<>>
    IN  IF ~IncludesPayments(table) THEN <<>>
        ELSE One(f.status # "", <<Col(px, "status"), Op("="), Str(f.status)>>)
          \o One(f.cardType # "", <<Col(px, "card_type"), Op("="), Str(f.cardType)>>)
          \o One(f.dateFrom # "", <<Col(px, "created_at"), Op(">="), Str(f.dateFrom)>>)
          \o One(f.dateTo # "", <<Col(px, "created_at"), Op("<="), StrEndOfDay(f.dateTo)>>)
          \o One(f.minAmount # "", <<Col(px, "amount"), Op(">="), Raw(f.minAmount)>>)
          \o One(f.maxAmount # "", <<Col(px, "amount"), Op("<="), Raw(f.maxAmount)>>)
          \o One(f.hasGatewayId, <<Col(px, "payment_gateway_id"), Kw("IS NOT NULL")>>)
          \o One(f.hasTransactionId, <<Col(px, "transaction_id"), Kw("IS NOT NULL")>>)
          \o One(f.hostUserId # <<>>,
                 <<Col("e", "user_id"), Op("="), ParsedLiteral(f.hostUserId)>>)

RECURSIVE JoinAnd(_)
\* conditions.join(" AND ")
JoinAnd(conds) ==
    IF conds = <<>> THEN <<>>
    ELSE IF Len(conds) = 1 THEN conds[1]
    ELSE conds[1] \o <<Kw("AND")>> \o JoinAnd(Tail(conds))

\* mutant of WhereClause: WHERE is appended also for an empty conditions array
WhereClauseAlways(conds) == <<Kw("WHERE")>> \o JoinAnd(conds)

\* if (conditions.length > 0) sql += ` WHERE ${conditions.join(" AND ")}`
WhereClause(conds) == IF Len(conds) > 0 THEN <<Kw("WHERE")>> \o JoinAnd(conds) ELSE <<>>

\* sql += ` ORDER BY ${prefix}${orderBy} ${orderDirection}`
OrderByClause(table, f) ==
    <<Kw("ORDER BY"), ColChars(TablePrefix(table, f), f.orderBy),
      RawChars(f.orderDirection)>>

\* sql += ` LIMIT ${formFilters.limit}`
LimitClause(f) == <<Kw("LIMIT"), Number(f.limit)>>

\* the text processFromForm hands to executeSQL
BuildSql(table, f) ==
    SelectFrom(table, f) \o WhereClause(Conditions(table, f)) \o OrderByClause(table, f)
        \o LimitClause(f)

\* parseInt(formFilters.hostUserId) || 0 of the preview: NaN and 0 give 0
PreviewParsedLiteral(s) ==
    IF ParseInt(s).nan \/ ParseInt(s).val = 0 THEN Number(0) ELSE Number(ParseInt(s).val)

\* the conditions array of the preview (part_002 1089-1131)
PreviewConditions(table, f) ==
    LET px == TablePrefix(table, f)
        One(on, cond) == IF on THEN <<cond>> ELSE <<>>
    IN  IF ~IncludesPayments(table) THEN <<>>
        ELSE One(f.status # "", <<Col(px, "status"), Op("="), Str(f.status)>>)
          \o One(f.cardType # "", <<Col(px, "card_type"), Op("="), Str(f.cardType)>>)
          \o One(f.dateFrom # "", <<Col(px, "created_at"), Op(">="), Str(f.dateFrom)>>)
          \o One(f.dateTo # "", <<Col(px, "created_at"), Op("<="), StrEndOfDay(f.dateTo)>>)
          \o One(f.minAmount # "", <<Col(px, "amount"), Op(">="), Raw(f.minAmount)>>)
          \o One(f.maxAmount # "", <<Col(px, "amount"), Op("<="), Raw(f.maxAmount)>>)
          \o One(f.hasGatewayId, <<Col(px, "payment_gateway_id"), Kw("IS NOT NULL")>>)
          \o One(f.hasTransactionId, <<Col(px, "transaction_id"), Kw("IS NOT NULL")>>)
          \o One(f.hostUserId # <<>>,
                 <<Col("e", "user_id"), Op("="), PreviewParsedLiteral(f.hostUserId)>>)

\* the text of the Preview SQL box (part_002 1064-1147), its line breaks being the
\* blanks between the clauses
PreviewSql(table, f) ==
    SelectFrom(table, f) \o WhereClause(PreviewConditions(table, f))
        \o OrderByClause(table, f) \o LimitClause(f)

\* the values the form controls are set to: each filter unset or set
SortOptions ==
    { <<"c", "r", "e", "a", "t", "e", "d", "_", "a", "t", "_", "D", "E", "S", "C">>,
      <<"a", "m", "o", "u", "n", "t", "_", "A", "S", "C">> }
LimitOptions == {10, 100}
FilterValues ==
    [status |-> {"", "success"}, cardType |-> {"", "American Express"},
     dateFrom |-> {"", "2026-11-01"}, dateTo |-> {"", "2026-11-04"},
     minAmount |-> {"", "0"}, maxAmount |-> {"", "50"},
     hasGatewayId |-> BOOLEAN, hasTransactionId |-> BOOLEAN,
     hostUserId |-> {<<>>, <<"4", "0">>, <<".", "5">>}]
FilterNames == DOMAIN FilterValues

\* the rows execute-sql answers a form query with
FormDatasets == {<<>>, <<[transaction_id |-> <<"t", "1">>, id |-> 7]>>}

\* the table select (disabled while processing)
SetSelectedTable(table) ==
    /\ ~isProcessing
    /\ selectedTable' = table
    /\ formSql' = NoSql
    /\ UNCHANGED formFilters
    /\ UNCHANGED <<dbVars, searchVars, pageVars, zipVars, traceVars, inputVars, runVars, chartVars>>

\* one control of the Payment Filters box, rendered for the payments selections only
SetFilter(name, value) ==
    /\ ~isProcessing
    /\ IncludesPayments(selectedTable)
    /\ formFilters' = [formFilters EXCEPT ![name] = value]
    /\ formSql' = NoSql
    /\ UNCHANGED selectedTable
    /\ UNCHANGED <<dbVars, searchVars, pageVars, zipVars, traceVars, inputVars, runVars, chartVars>>

\* the limit select: limit: parseInt(e.target.value)
SetLimit(n) ==
    /\ ~isProcessing
    /\ formFilters' = [formFilters EXCEPT !.limit = ParseInt(Digits(n)).val]
    /\ formSql' = NoSql
    /\ UNCHANGED selectedTable
    /\ UNCHANGED <<dbVars, searchVars, pageVars, zipVars, traceVars, inputVars, runVars, chartVars>>

\* the sort select: the value is split at "_", the last part is the direction and the
\* rest, joined again, the column
SetSort(option) ==
    /\ ~isProcessing
    /\ LET parts == Split(option, "_")
           last == parts[Len(parts)]
           orderDirection == IF last = <<>> THEN <<"D", "E", "S", "C">> ELSE last
           orderBy == Join(SubSeq(parts, 1, Len(parts) - 1), <<"_">>)
       IN  formFilters' = [formFilters EXCEPT !.orderBy = orderBy,
                                              !.orderDirection = orderDirection]
    /\ formSql' = NoSql
    /\ UNCHANGED selectedTable
    /\ UNCHANGED <<dbVars, searchVars, pageVars, zipVars, traceVars, inputVars, runVars, chartVars>>

\* the Process button with the form tab open: processFromForm up to await executeSQL
ProcessFromForm ==
    /\ ~ProcessDisabled
    /\ dataSource = "form"
    /\ formSql' = BuildSql(selectedTable, formFilters)
    /\ StartRun("form")
    /\ calls' = <<Requested("execute-sql", <<>>)>>
    /\ zPc' = "sql"
    /\ UNCHANGED <<checkZips, selectedTable, formFilters, generatedSQL, inputVars, chartVars>>
    /\ UNCHANGED <<dbVars, searchVars, pageVars>>

InitForm ==
    /\ payments = <<>>
    /\ events = EventsTable
    /\ event_attendees = AttendeesTable
    /\ SearchIdle
    /\ PageFresh
    /\ QueryPageFresh
    /\ PoolFresh
    /\ StatementIdle
    /\ PanelFresh

NextForm ==
    \/ \E table \in TableOptions : SetSelectedTable(table)
    \/ \E name \in FilterNames : \E value \in FilterValues[name] : SetFilter(name, value)
    \/ \E n \in LimitOptions : SetLimit(n)
    \/ \E option \in SortOptions : SetSort(option)
    \/ SetDataSource("form")
    \/ ProcessFromForm
    \/ \E kind \in FailureKinds : SqlFails(kind)
    \/ \E data \in FormDatasets : SqlReturns(data, FALSE)

SpecForm == InitForm /\ [][NextForm]_vars

\* ------------------------------------------------------------------ claims: form SQL

Positions(word) == {k \in 1..Len(formSql) : formSql[k].t = word}

\* the filters of the form that are set, for a payments selection; none otherwise
ActiveFilters ==
    IF ~IncludesPayments(selectedTable) THEN {}
    ELSE {name \in {"status", "cardType", "dateFrom", "dateTo", "minAmount", "maxAmount"} :
              formFilters[name] # ""}
         \cup {name \in {"hasGatewayId", "hasTransactionId"} : formFilters[name]}
         \cup {name \in {"hostUserId"} : formFilters[name] # <<>>}

\* C13: the text built by processFromForm ends with one ORDER BY clause followed by one
\* LIMIT clause; WHERE stands before them exactly when a condition was produced, with
\* one condition per set filter, joined by AND; a non-payments selection has none.
C13_OrderByLimitWhere ==
    formSql # NoSql =>
        LET n == Len(formSql)
            where == Positions("WHERE")
            conds == {k \in Positions("col") :
                          /\ \E w \in where : w < k
                          /\ k < n - 4}
        IN  /\ Positions("ORDER BY") = {n - 4}
            /\ formSql[n - 3].t = "col"
            /\ Positions("LIMIT") = {n - 1}
            /\ formSql[n].t = "num" /\ formSql[n].n = formFilters.limit
            /\ Cardinality(where) <= 1
            /\ where # {} <=> ActiveFilters # {}
            /\ Cardinality(conds) = Cardinality(ActiveFilters)
            /\ where # {} => Cardinality(Positions("AND")) = Cardinality(ActiveFilters) - 1
            /\ where = {} => Positions("AND") = {}
            /\ \A a \in Positions("AND") : \E w \in where : w < a /\ a < n - 4
            /\ ~IncludesPayments(selectedTable) => where = {}

C13_Witness ==
    /\ formSql # NoSql
    /\ Cardinality(ActiveFilters) >= 3
    /\ selectedTable = "payments_with_events"

\* the aliases the FROM clause defines, and the places after it where one is used
DefinedAliases == {formSql[k].alias : k \in Positions("table")} \ {""}
AliasUses ==
    {k \in Positions("col") :
        /\ formSql[k].alias # ""
        /\ \E w \in Positions("WHERE") \cup Positions("ORDER BY") : w < k}

\* C14: with a host user id filter on a payments selection the FROM clause joins
\* events_fdw under alias e and payment columns carry p.; every alias used in WHERE or
\* ORDER BY is defined in the FROM clause of the statement.
C14_AliasesDefined ==
    formSql # NoSql =>
        /\ (IncludesPayments(selectedTable) /\ formFilters.hostUserId # <<>>) =>
               /\ \E k \in Positions("table") :
                      formSql[k].v = "events_fdw" /\ formSql[k].alias = "e"
               /\ \A k \in AliasUses : formSql[k].alias \in {"p", "e"}
        /\ \A k \in AliasUses : formSql[k].alias \in DefinedAliases

\* ------------------------------------------------------------------ claims: ZIP requests

StartedAt == {k \in 1..Len(zTrace) : zTrace[k].ev = "started"}

\* C15 (sequential part): requests are sent in row order, and a request is sent only
\* after the one before it has settled, so at most one is in flight.
ZipRequestsSequential ==
    /\ \A k \in StartedAt :
           zTrace[k].row = Cardinality({j \in StartedAt : j <= k})
    /\ \A k \in StartedAt :
           k > 1 => \E j \in 1..(k - 1) :
                        zTrace[j] = Settled(zTrace[k].row - 1)
    /\ Cardinality(StartedAt)
           - Cardinality({k \in 1..Len(zTrace) : zTrace[k].ev = "settled"}) \in {0, 1}

\* C15: with ZIP checking on, fetch-zip requests are sent one at a time, in row order,
\* each after the one before has settled, and the delay is awaited between every two
\* consecutive requests whatever the earlier one came to.
C15_SequentialWithDelay ==
    /\ ZipRequestsSequential
    /\ \A k \in StartedAt :
           k > 1 => \E j \in 1..(k - 1) : zTrace[j] = Delayed(zTrace[k].row - 1)

\* ------------------------------------------------------------------ both pages: runs

\* the answers of seat-lookup and of execute-sql in this specification
RunResponses == {<<>>}
RunDatasets == FormDatasets

InitRuns ==
    /\ payments = <<>>
    /\ events = EventsTable
    /\ event_attendees = AttendeesTable
    /\ SearchIdle
    /\ PageFresh
    /\ QueryPageFresh
    /\ PoolFresh
    /\ StatementIdle
    /\ PanelFresh

NextRuns ==
    \/ \E q \in SearchInputs : SetSearchQuery(q)
    \/ HandleSearchBlank
    \/ HandleSearch
    \/ \E rs \in RunResponses : SearchSucceeds(rs)
    \/ SearchFails
    \/ \E source \in DataSources : SetDataSource(source)
    \/ \E q \in QueryInputs : SetSqlQuery(q)
    \/ \E q \in QueryInputs : SetNaturalLanguageQuery(q)
    \/ SetCheckZips
    \/ ProcessFromSQL
    \/ ProcessFromWizard
    \/ ProcessFromForm
    \/ \E kind \in FailureKinds : NlFails(kind)
    \/ \E sql \in GeneratedSqls, warning \in BOOLEAN : NlReturns(sql, warning)
    \/ \E kind \in FailureKinds : SqlFails(kind)
    \/ \E data \in RunDatasets, modified \in BOOLEAN : SqlReturns(data, modified)
    \/ \E modified \in BOOLEAN : SqlMalformed(modified)
    \/ FetchThrows
    \/ FetchResponds
    \/ JsonThrows
    \/ \E body \in ZipBodies : JsonParsed(body)
    \/ DelayElapsed

SpecRuns == InitRuns /\ [][NextRuns]_vars

\* a request of a run in flight settles, or the delay of the ZIP loop elapses
RunSettles ==
    \/ \E kind \in FailureKinds : NlFails(kind)
    \/ \E sql \in GeneratedSqls, warning \in BOOLEAN : NlReturns(sql, warning)
    \/ \E kind \in FailureKinds : SqlFails(kind)
    \/ \E data \in RunDatasets, modified \in BOOLEAN : SqlReturns(data, modified)
    \/ \E modified \in BOOLEAN : SqlMalformed(modified)
    \/ FetchThrows
    \/ FetchResponds
    \/ JsonThrows
    \/ \E body \in ZipBodies : JsonParsed(body)
    \/ DelayElapsed

\* the seat-lookup request in flight settles
SearchSettles ==
    \/ \E rs \in RunResponses : SearchSucceeds(rs)
    \/ SearchFails

\* every request sent settles and every timer set fires
SpecRunsLive == SpecRuns /\ WF_vars(RunSettles) /\ WF_vars(SearchSettles)

\* ------------------------------------------------------------------ claims: runs

\* C16: on each page at most one data request run is outstanding: a search is in flight
\* exactly while isLoading is true, a handleProcess run exactly while isProcessing is
\* true, and neither count exceeds one whatever the user does meanwhile.
C16_OneRunAtATime ==
    /\ pending \in {0, 1}
    /\ pending = 1 <=> isLoading
    /\ runs \in {0, 1}
    /\ runs = 1 <=> isProcessing
    /\ runs = 1 <=> zPc \in {"nl", "sql", "fetch", "json", "delay"}

C16_Witness ==
    /\ isLoading
    /\ isProcessing
    /\ zPc = "fetch"
    /\ zSource = "sql"
    /\ dataSource = "wizard"
    /\ Trim(naturalLanguageQuery) # <<>>

C18_SingleLazyPool ==
    /\ pool = "null" <=> instance = 0
    /\ constructed = 0 => (pool = "null" /\ handed = {})
    /\ sinceClose <= 1
    /\ Cardinality(handed) <= 1
    /\ pool = "open" => (instance = constructed /\ handed \subseteq {instance}
                         /\ sinceClose = 1)
    /\ Len(registered) = constructed
    /\ \A i \in 1..Len(registered) : registered[i] = [connect |-> 1, error |-> 1]

C18_Witness ==
    /\ constructed = 2
    /\ pool = "open"
    /\ handed = {2}
    /\ Len(executed) >= 2
    /\ \E c \in 1..MaxClients : Idle(c)

\* ------------------------------------------------------------------ chart panel (part_002)

\* String.prototype.includes: s contains q as a substring, characters compared as they are
Includes(s, q) ==
    \E k \in 0..(Len(s) - Len(q)) : \A i \in 1..Len(q) : s[k + i] = q[i]

\* the words generateChart looks for in the lower-cased prompt
Keywords ==
    [line |-> <<"l", "i", "n", "e">>,
     trend |-> <<"t", "r", "e", "n", "d">>,
     overTime |-> <<"o", "v", "e", "r", " ", "t", "i", "m", "e">>,
     bar |-> <<"b", "a", "r">>,
     distribution |-> <<"d", "i", "s", "t", "r", "i", "b", "u", "t", "i", "o", "n">>,
     pie |-> <<"p", "i", "e">>,
     breakdown |-> <<"b", "r", "e", "a", "k", "d", "o", "w", "n">>,
     area |-> <<"a", "r", "e", "a">>,
     cumulative |-> <<"c", "u", "m", "u", "l", "a", "t", "i", "v", "e">>,
     revenue |-> <<"r", "e", "v", "e", "n", "u", "e">>]

\* CHART_PRESETS of lib/chart-utils: each preset's value and chart type
CHART_PRESETS ==
    <<[value |-> "transactions-over-time", type |-> "line"],
      [value |-> "amount-distribution", type |-> "bar"],
      [value |-> "status-breakdown", type |-> "pie"],
      [value |-> "daily-revenue", type |-> "area"]>>

\* getChartDataByPreset of lib/chart-utils: the data of one preset computed from the results
getChartDataByPreset(preset, res) == [preset |-> preset, rows |-> Len(res)]

\* the branches of generateChart for a custom prompt, tested with bar before line
HeuristicChoiceBarFirst(text) ==
    LET prompt == LowerStr(text)
    IN  IF Includes(prompt, Keywords.bar) \/ Includes(prompt, Keywords.distribution)
        THEN [preset |-> "amount-distribution", type |-> "bar"]
        ELSE IF \/ Includes(prompt, Keywords.line)
                \/ Includes(prompt, Keywords.trend)
                \/ Includes(prompt, Keywords.overTime)
        THEN [preset |-> "transactions-over-time", type |-> "line"]
        ELSE IF Includes(prompt, Keywords.pie) \/ Includes(prompt, Keywords.breakdown)
        THEN [preset |-> "status-breakdown", type |-> "pie"]
        ELSE IF \/ Includes(prompt, Keywords.area)
                \/ Includes(prompt, Keywords.cumulative)
                \/ Includes(prompt, Keywords.revenue)
        THEN [preset |-> "daily-revenue", type |-> "area"]
        ELSE [preset |-> "transactions-over-time", type |-> "line"]

\* the branches of generateChart for a custom prompt: the preset passed to
\* getChartDataByPreset and the type passed to setChartType
HeuristicChoice(text) ==
    LET prompt == LowerStr(text)
    IN  IF \/ Includes(prompt, Keywords.line)
           \/ Includes(prompt, Keywords.trend)
           \/ Includes(prompt, Keywords.overTime)
        THEN [preset |-> "transactions-over-time", type |-> "line"]
        ELSE IF Includes(prompt, Keywords.bar) \/ Includes(prompt, Keywords.distribution)
        THEN [preset |-> "amount-distribution", type |-> "bar"]
        ELSE IF Includes(prompt, Keywords.pie) \/ Includes(prompt, Keywords.breakdown)
        THEN [preset |-> "status-breakdown", type |-> "pie"]
        ELSE IF \/ Includes(prompt, Keywords.area)
                \/ Includes(prompt, Keywords.cumulative)
                \/ Includes(prompt, Keywords.revenue)
        THEN [preset |-> "daily-revenue", type |-> "area"]
        ELSE [preset |-> "transactions-over-time", type |-> "line"]

\* the options of the preset select: the placeholder and every preset
ChartOptions == {""} \cup {CHART_PRESETS[i].value : i \in 1..Len(CHART_PRESETS)}

\* texts typed in the custom chart request input
ChartPrompts ==
    {<<"L", "i", "n", "e">>,
     <<"t", "r", "e", "n", "d">>,
     <<"o", "v", "e", "r", " ", "t", "i", "m", "e">>,
     <<"B", "a", "r">>,
     <<"d", "i", "s", "t", "r", "i", "b", "u", "t", "i", "o", "n">>,
     <<"p", "i", "e">>,
     <<"b", "r", "e", "a", "k", "d", "o", "w", "n">>,
     <<"a", "r", "e", "a">>,
     <<"c", "u", "m", "u", "l", "a", "t", "i", "v", "e">>,
     <<"r", "e", "v", "e", "n", "u", "e">>,
     <<"B", "a", "r", " ", "L", "i", "n", "e">>,
     <<"p", "i", "e", " ", "b", "a", "r">>,
     <<"a", "r", "e", "a", " ", "p", "i", "e">>,
     <<"m", "a", "p">>,
     <<" ">>}

\* mutant of PromptAfterSelect: the select leaves the request text as it is
PromptKeptAfterSelect(prompt) == prompt

\* setCustomPrompt("") in onChange of the preset select
PromptAfterSelect(prompt) == <<>>

\* onChange of the preset select
SetSelectedChart(value) ==
    /\ selectedChart' = value
    /\ customPrompt' = PromptAfterSelect(customPrompt)
    /\ UNCHANGED <<chartData, chartType, chartToast, charted>>
    /\ UNCHANGED <<dbVars, searchVars, pageVars, zipVars, formVars, traceVars, inputVars,
                   runVars>>

\* onChange of the custom chart request input
SetCustomPrompt(text) ==
    /\ customPrompt' = text
    /\ selectedChart' = ""
    /\ UNCHANGED <<chartData, chartType, chartToast, charted>>
    /\ UNCHANGED <<dbVars, searchVars, pageVars, zipVars, formVars, traceVars, inputVars,
                   runVars>>

\* generateChart, run by the View Chart button and by Enter in the request input;
\* throws: getChartDataByPreset throws
GenerateChart(throws) ==
    /\ charted' = [selected |-> selectedChart, prompt |-> customPrompt]
    /\ IF selectedChart = "" /\ Trim(customPrompt) = <<>>
       THEN /\ ~throws
            /\ chartToast' = "Please select a chart type or enter a custom prompt"
            /\ UNCHANGED <<chartData, chartType>>
       ELSE IF Len(qResults) = 0
       THEN /\ ~throws
            /\ chartToast' = "No data available. Please run a query first."
            /\ UNCHANGED <<chartData, chartType>>
       ELSE IF selectedChart # ""
       THEN LET found == {i \in 1..Len(CHART_PRESETS) :
                             CHART_PRESETS[i].value = selectedChart}
            IN  IF found = {}
                THEN /\ ~throws
                     /\ UNCHANGED <<chartData, chartType, chartToast>>
                ELSE IF throws
                THEN /\ chartToast' = "Failed to generate chart"
                     /\ UNCHANGED <<chartData, chartType>>
                ELSE LET preset == CHART_PRESETS[CHOOSE i \in found : \A j \in found : i <= j]
                     IN  /\ chartData' = getChartDataByPreset(selectedChart, qResults)
                         /\ chartType' = preset.type
                         /\ chartToast' = "Chart generated successfully!"
       ELSE IF throws
       THEN /\ chartToast' = "Failed to generate chart"
            /\ UNCHANGED <<chartData, chartType>>
       ELSE LET choice == HeuristicChoice(customPrompt)
            IN  /\ chartData' = getChartDataByPreset(choice.preset, qResults)
                /\ chartType' = choice.type
                /\ chartToast' = "Chart generated from your prompt!"
    /\ UNCHANGED <<selectedChart, customPrompt>>
    /\ UNCHANGED <<dbVars, searchVars, pageVars, zipVars, formVars, traceVars, inputVars,
                   runVars>>

InitChart ==
    /\ payments = <<>>
    /\ events = EventsTable
    /\ event_attendees = AttendeesTable
    /\ SearchIdle
    /\ PageFresh
    /\ QueryPageFresh
    /\ PoolFresh
    /\ StatementIdle
    /\ PanelFresh

NextChart ==
    \/ \E q \in QueryInputs : SetSqlQuery(q)
    \/ ProcessFromSQL
    \/ \E kind \in FailureKinds : SqlFails(kind)
    \/ \E data \in RunDatasets, modified \in BOOLEAN : SqlReturns(data, modified)
    \/ \E value \in ChartOptions : SetSelectedChart(value)
    \/ \E text \in ChartPrompts : SetCustomPrompt(text)
    \/ \E throws \in BOOLEAN : GenerateChart(throws)

SpecChart == InitChart /\ [][NextChart]_vars

\* the toasts generateChart shows when it has loaded a chart
ChartSuccess == {"Chart generated successfully!", "Chart generated from your prompt!"}

\* C19: after a successful generateChart the loaded data is that of the selected preset
\* when one was selected, and otherwise that of the first matching keyword group of the
\* lower-cased prompt in the order line/trend/over time, bar/distribution, pie/breakdown,
\* area/cumulative/revenue, default transactions-over-time; and chartType is the type of
\* the preset whose data was loaded
C19_PresetByPriority ==
    chartToast \in ChartSuccess =>
        LET p == LowerStr(charted.prompt)
            has(w) == Includes(p, w)
            expected ==
                IF charted.selected # "" THEN charted.selected
                ELSE IF has(Keywords.line) \/ has(Keywords.trend) \/ has(Keywords.overTime)
                THEN "transactions-over-time"
                ELSE IF has(Keywords.bar) \/ has(Keywords.distribution)
                THEN "amount-distribution"
                ELSE IF has(Keywords.pie) \/ has(Keywords.breakdown)
                THEN "status-breakdown"
                ELSE IF has(Keywords.area) \/ has(Keywords.cumulative) \/ has(Keywords.revenue)
                THEN "daily-revenue"
                ELSE "transactions-over-time"
        IN  /\ chartData.preset = expected
            /\ \E i \in 1..Len(CHART_PRESETS) :
                  /\ CHART_PRESETS[i].value = chartData.preset
                  /\ CHART_PRESETS[i].type = chartType

\* a prompt naming both a bar and a line keyword, in capitals, has loaded the line chart
C19_Witness ==
    /\ chartToast = "Chart generated from your prompt!"
    /\ charted.prompt = <<"B", "a", "r", " ", "L", "i", "n", "e">>
    /\ chartData = [preset |-> "transactions-over-time", rows |-> 1]
    /\ chartType = "line"

\* ------------------------------------------------------------------ C20

\* the responses whose results differ in their dates alone
DatedResponses ==
    {rs \in Responses : \A k \in 1..Len(rs) : rs[k].payerName = <<"A", "l">>}

InitFilter ==
    /\ payments = <<>>
    /\ events = EventsTable
    /\ event_attendees = AttendeesTable
    /\ SearchIdle
    /\ PageFresh
    /\ QueryPageFresh
    /\ PoolFresh
    /\ StatementIdle
    /\ PanelFresh

NextFilter ==
    \/ \E q \in SearchInputs : SetSearchQuery(q)
    \/ HandleSearchBlank
    \/ HandleSearch
    \/ \E rs \in DatedResponses : SearchSucceeds(rs)
    \/ SearchFails
    \/ TogglePast
    \/ ToggleFuture
    \/ ExportToCSV
    \/ NextDay

SpecFilter == InitFilter /\ [][NextFilter]_vars

\* the days a result of the enumerated responses can be dated
ResultDays == {FirstDay - 1, FirstDay, FirstDay + 1}

\* the k-th result is dated day: its eventStartDate is the en-US text of that day
DatedOn(k, day) == results[k].eventStartDate = FormatDate(day)

\* the k-th result is among the displayed results
Shown(k) == \E j \in 1..Len(filteredResults) : filteredResults[j] = results[k]

\* every held result is shown as its bucket and the checkboxes say
VisibleByBucket ==
    \A k \in 1..Len(results) : \A day \in ResultDays :
        DatedOn(k, day) =>
            /\ day = today => Shown(k)
            /\ day < today => (Shown(k) <=> showPastTransactions)
            /\ day > today => (Shown(k) <=> showFutureTransactions)

\* the step that changed a checkbox left every result outside that checkbox's bucket
\* displayed or hidden as it was before the step
ToggleKeptOthers ==
    \A k \in 1..Len(results) : \A day \in ResultDays :
        /\ (toggled.box = "past" /\ DatedOn(k, day) /\ day >= today) =>
               (Shown(k) <=> results[k].paymentId \in toggled.shown)
        /\ (toggled.box = "future" /\ DatedOn(k, day) /\ day <= today) =>
               (Shown(k) <=> results[k].paymentId \in toggled.shown)

\* C20: a result dated today is shown whatever the checkboxes say, a past-dated one
\* exactly when showPastTransactions is checked, a future-dated one exactly when
\* showFutureTransactions is checked; and a toggle of one checkbox leaves the visibility
\* of every result outside that checkbox's bucket as it was
C20_BucketVisibility == VisibleByBucket /\ ToggleKeptOthers

\* a past-dated and a future-dated result are held and, with only the past checkbox
\* checked, the past one alone is shown
C20_Witness ==
    /\ Len(results) = 2
    /\ today = FirstDay
    /\ DatedOn(1, FirstDay - 1)
    /\ DatedOn(2, FirstDay + 1)
    /\ showPastTransactions
    /\ ~showFutureTransactions
    /\ toggled = [box |-> "future", shown |-> {1, 2}]
    /\ filteredResults = <<results[1]>>

\* ------------------------------------------------------------------ C21

\* the CSV text of the rows of the results table, one line per displayed row in the
\* table's order after the header line
DisplayedCsv ==
    LET lines == [k \in 1..Len(filteredResults) |-> CsvLine(CsvCells(filteredResults[k]))]
    IN  Join(<<CsvLine(CsvHeaders)>> \o lines, <<"\n">>)

\* C21: the export applies the filter of the display: the results exportToCSV writes
\* are the rows of the results table in the same order, and the count of the
\* 'Results (n)' heading is the number of data rows written
C21_ExportEqualsDisplay ==
    csvContent # NoCsv =>
        /\ exportFilteredResults = filteredResults
        /\ csvContent = DisplayedCsv
        /\ Len(filteredResults) = Len(exportFilteredResults)

\* an export made with a past-dated and a future-dated result held and only the
\* future checkbox checked: the future row alone is written
C21_Witness ==
    /\ csvContent # NoCsv
    /\ Len(results) = 2
    /\ DatedOn(1, FirstDay - 1)
    /\ DatedOn(2, FirstDay + 1)
    /\ today = FirstDay
    /\ showFutureTransactions
    /\ ~showPastTransactions
    /\ exportFilteredResults = <<results[2]>>

\* ------------------------------------------------------------------ C22

InitWizard ==
    /\ payments = <<>>
    /\ events = EventsTable
    /\ event_attendees = AttendeesTable
    /\ SearchIdle
    /\ PageFresh
    /\ QueryPageFresh
    /\ PoolFresh
    /\ StatementIdle
    /\ PanelFresh

NextWizard ==
    \/ SetDataSource("wizard")
    \/ \E q \in QueryInputs : SetNaturalLanguageQuery(q)
    \/ SetCheckZips
    \/ ProcessFromWizard
    \/ \E kind \in FailureKinds : NlFails(kind)
    \/ \E sql \in GeneratedSqls, warning \in BOOLEAN : NlReturns(sql, warning)
    \/ \E kind \in FailureKinds : SqlFails(kind)
    \/ \E data \in RunDatasets : SqlReturns(data, FALSE)
    \/ FetchThrows
    \/ FetchResponds
    \/ JsonThrows
    \/ \E body \in ZipBodies : JsonParsed(body)
    \/ DelayElapsed

SpecWizard == InitWizard /\ [][NextWizard]_vars

\* the positions in calls of the execute-sql requests
ExecuteRequests ==
    {i \in 1..Len(calls) : calls[i].ev = "requested" /\ calls[i].api = "execute-sql"}

\* C22: in a run of processFromWizard the nl-to-sql request comes first; an execute-sql
\* request is sent only after nl-to-sql answered, with exactly the sql text of that
\* answer, which is also the generatedSQL state; and once nl-to-sql failed the run sends
\* no execute-sql request and no fetch-zip request
C22_ConvertThenExecute ==
    (zSource = "wizard" /\ calls # <<>>) =>
        /\ calls[1].ev = "requested" /\ calls[1].api = "nl-to-sql"
        /\ \A i \in ExecuteRequests :
              /\ i > 1
              /\ calls[i - 1] = Answered("nl-to-sql", calls[i].text)
              /\ generatedSQL = calls[i].text
        /\ (\E j \in 1..Len(calls) : calls[j] = Failed("nl-to-sql")) =>
              /\ ExecuteRequests = {}
              /\ zTrace = <<>>

\* a second wizard run whose nl-to-sql answered another sql text than the first run's
\* has sent that text to execute-sql and gone on to the ZIP lookups
C22_Witness ==
    /\ zSource = "wizard"
    /\ Len(calls) = 4
    /\ calls[3] = Requested("execute-sql", <<"S", "2">>)
    /\ zTrace # <<>>
    /\ zPc = "finished"

\* ------------------------------------------------------------------ C23

\* a is a prefix of b
IsPrefix(a, b) == Len(a) <= Len(b) /\ SubSeq(b, 1, Len(a)) = a

\* the results state holds the entries of the first rows of the query, in query order,
\* all of them once the run has finished, and every transactionId of the errors state
\* is that of an entry of the results state
PublishedInOrder ==
    /\ Len(qResults) <= Len(zData)
    /\ \A k \in 1..Len(qResults) :
          /\ qResults[k].transactionId = TransactionId(zData[k], k)
          /\ qResults[k].fullResponse = zData[k]
    /\ zPc = "finished" => Len(qResults) = Len(zData)
    /\ \A e \in 1..Len(qErrors) :
          \E k \in 1..Len(qResults) : qResults[k].transactionId = qErrors[e].transactionId

\* a step either starts a run, which clears the results state, or leaves the results
\* state a prefix of what it becomes
ResultsOnlyGrow ==
    \/ IsPrefix(qResults, qResults')
    \/ zPc' \in {"sql", "nl"} /\ qResults' = <<>>

\* C23: during a run the results state is a prefix, in query order, of the final results
\* list, and every transactionId in the errors state belongs to a row already in the
\* results state
C23_IncrementalPrefix == []PublishedInOrder /\ [][ResultsOnlyGrow]_vars

\* in the middle of a run with ZIP checking: the first of two rows is published with
\* its error and the second row's lookup is under way
C23_Witness ==
    /\ zPc = "fetch"
    /\ Len(zData) = 2
    /\ Len(qResults) = 1
    /\ Len(qErrors) = 1
    /\ zi = 2

\* ------------------------------------------------------------------ C24

\* the summary line under the results table (part_002 1371-1374)
SummaryTotal == Len(qResults) + Len(qErrors)
SummarySuccessful == Len(qResults)
SummaryFailed == Len(qErrors)

\* the rows of the finished run whose ZIP lookup recorded an error
ErrorRows ==
    {k \in 1..Len(outcomes) : outcomes[k] \in {"fetchThrows", "jsonThrows", "bodyNull", "errors"}}

\* C24 (as claimed): after a run with ZIP checking on, Total is the number of rows the
\* query returned, Successful and the toast's '<n> successful' are the number of rows
\* whose lookup recorded no error, Failed is the number of rows whose lookup recorded an
\* error, and Successful + Failed = Total
C24_SummaryConsistent ==
    (zPc = "finished" /\ zCheck) =>
        /\ SummaryTotal = Len(zData)
        /\ SummarySuccessful = Len(zData) - Cardinality(ErrorRows)
        /\ qToast.successful = Len(zData) - Cardinality(ErrorRows)
        /\ SummaryFailed = Cardinality(ErrorRows)
        /\ SummarySuccessful + SummaryFailed = SummaryTotal

\* ------------------------------------------------------------------ C25

\* C25: every run eventually clears its busy flag, whatever comes of its requests: a run
\* started by handleProcess ends with isProcessing false and progress 100, and a search
\* started by handleSearch ends with isLoading false
C25_BusyFlagCleared ==
    /\ isProcessing ~> (~isProcessing /\ progress = 100)
    /\ isLoading ~> ~isLoading

\* a run of the SQL tab that was answered OK without a results array has ended with the
\* flag cleared
C25_Witness ==
    /\ zSource = "sql"
    /\ zPc = "failed"
    /\ calls[Len(calls)] = Malformed("execute-sql")
    /\ ~isProcessing
    /\ progress = 100

\* ------------------------------------------------------------------ C26

\* C26 (as claimed): under every interleaving of getDb, query and closeDb, getDb never
\* returns a Pool on which end() was called, end() is called at most once on any Pool,
\* and a Pool built after a closeDb is never set to null by that earlier closeDb
C26_PoolLifecycleSafe ==
    /\ [](~returnedEnding)
    /\ [](\A i \in 1..Len(endCalls) : endCalls[i] <= 1)
    /\ [][(pool # "null" /\ pool' = "null") => closing = instance]_vars

\* ------------------------------------------------------------------ C27

\* C27 (as claimed): for every form state the SQL of the Preview SQL box is, up to white
\* space, the SQL processFromForm sends to execute-sql for that state
C27_PreviewIsSent ==
    PreviewSql(selectedTable, formFilters) = BuildSql(selectedTable, formFilters)

\* ------------------------------------------------------------------ searchPayments

\* $n
Placeholder(n) == Token("$", "", "", n, <<>>)

\* SELECT p.id, … , e.user_id as host_user_id FROM payments_fdw p LEFT JOIN events_fdw e
\* ON p.event_id = e.id WHERE 1=1
SearchPaymentsSelect ==
    <<Kw("SELECT"), Col("p", "id"), Col("p", "transaction_id"), Col("p", "status"),
      Col("p", "name_on_card"), Col("p", "card_type"), Col("p", "last_four"),
      Col("p", "amount"), Col("p", "created_at"), Col("p", "user_id"),
      Col("p", "event_id"), Col("p", "event_attendee_id"),
      Col("p", "shipping_address_id"), Col("p", "metadata"), Col("e", "user_id"),
      Kw("as"), Raw("host_user_id"), Kw("FROM"), Table("payments_fdw", "p"),
      Kw("LEFT JOIN"), Table("events_fdw", "e"), Kw("ON"), Col("p", "event_id"),
      Op("="), Col("e", "id"), Kw("WHERE"), Raw("1=1")>>

\* if (params.x): undefined, "" and 0 are falsy, an array is truthy
Truthy(value) ==
    CASE value.kind = "undefined" -> FALSE
      [] value.kind = "array" -> TRUE
      [] value.kind = "string" -> value.str # ""
      [] value.kind = "number" -> value.num # 0

\* mutant of Push: paramCount is not incremented
PushUnnumbered(st, before, after, value) ==
    [paramCount |-> st.paramCount,
     queryText |-> st.queryText \o before \o <<Placeholder(st.paramCount)>> \o after,
     queryParams |-> Append(st.queryParams, value)]

\* paramCount++; queryText += ` … $${paramCount} …`; queryParams.push(value)
Push(st, before, after, value) ==
    [paramCount |-> st.paramCount + 1,
     queryText |-> st.queryText \o before \o <<Placeholder(st.paramCount + 1)>> \o after,
     queryParams |-> Append(st.queryParams, value)]

\* the statement and the parameter array searchPayments hands to query()
SearchPaymentsStatement(p) ==
    LET s0 == [paramCount |-> 0, queryText |-> SearchPaymentsSelect, queryParams |-> <<>>]
        s1 == IF Truthy(p.transactionIds) /\ Len(p.transactionIds.arr) > 0
              THEN Push(s0, <<Kw("AND"), Col("p", "transaction_id"), Op("="), Kw("ANY(")>>,
                        <<Kw(")")>>, p.transactionIds)
              ELSE s0
        s2 == IF Truthy(p.dateFrom)
              THEN Push(s1, <<Kw("AND"), Col("p", "created_at"), Raw("::date"), Op(">=")>>,
                        <<Raw("::date")>>, p.dateFrom)
              ELSE s1
        s3 == IF Truthy(p.dateTo)
              THEN Push(s2, <<Kw("AND"), Col("p", "created_at"), Raw("::date"), Op("<=")>>,
                        <<Raw("::date")>>, p.dateTo)
              ELSE s2
        s4 == IF Truthy(p.hostUserId)
              THEN Push(s3, <<Kw("AND"), Col("e", "user_id"), Op("=")>>, <<>>, p.hostUserId)
              ELSE s3
        s5 == [s4 EXCEPT !.queryText =
                             @ \o <<Kw("ORDER BY"), Col("p", "created_at"), Kw("DESC")>>]
        s6 == IF Truthy(p.limit) THEN Push(s5, <<Kw("LIMIT")>>, <<>>, p.limit) ELSE s5
        s7 == IF Truthy(p.offset) THEN Push(s6, <<Kw("OFFSET")>>, <<>>, p.offset) ELSE s6
    IN  s7

\* the parameters searchPayments is called with: each one left out, falsy, or set
SearchParamValues ==
    [transactionIds : {Undefined, ArrayOf(<<>>), ArrayOf(<<"t1", "t2">>)},
     dateFrom : {Undefined, StringOf(""), StringOf("2024-01-01")},
     dateTo : {Undefined, StringOf(""), StringOf("2024-12-31")},
     hostUserId : {Undefined, NumberOf(0), NumberOf(7)},
     limit : {Undefined, NumberOf(0), NumberOf(10)},
     offset : {Undefined, NumberOf(0), NumberOf(20)}]

\* searchPayments is called: the statement is built and handed to query()
SearchPayments(p) ==
    /\ spPc \in {"idle", "done", "failed"}
    /\ spPc' = "query"
    /\ spParams' = p
    /\ queryText' = SearchPaymentsStatement(p).queryText
    /\ queryParams' = SearchPaymentsStatement(p).queryParams
    /\ UNCHANGED <<tables, poolVars, searchVars, pageVars, zipVars, panelVars>>

\* query() resolves with the rows, which searchPayments returns, or rethrows
SearchPaymentsSettles(ok) ==
    /\ spPc = "query"
    /\ spPc' = IF ok THEN "done" ELSE "failed"
    /\ UNCHANGED <<spParams, queryText, queryParams>>
    /\ UNCHANGED <<tables, poolVars, searchVars, pageVars, zipVars, panelVars>>

InitPayments ==
    /\ payments = <<>>
    /\ events = EventsTable
    /\ event_attendees = AttendeesTable
    /\ SearchIdle
    /\ PageFresh
    /\ QueryPageFresh
    /\ PoolFresh
    /\ StatementIdle
    /\ PanelFresh

NextPayments ==
    \/ \E p \in SearchParamValues : SearchPayments(p)
    \/ \E ok \in BOOLEAN : SearchPaymentsSettles(ok)

SpecPayments == InitPayments /\ [][NextPayments]_vars

\* ------------------------------------------------------------------ C28

\* positions of the placeholders in the statement, in order of appearance
PlaceholderAt == {k \in 1..Len(queryText) : queryText[k].t = "$"}
NthPlaceholder(i) ==
    CHOOSE k \in PlaceholderAt : Cardinality({j \in PlaceholderAt : j <= k}) = i

\* the parameter whose filter the placeholder at position k was written by, read off the
\* text in front of it
IntroducedBy(k) ==
    CASE queryText[k - 1] = Kw("ANY(") /\ queryText[k - 3] = Col("p", "transaction_id")
             -> "transactionIds"
      [] queryText[k - 1] = Op(">=") /\ queryText[k - 3] = Col("p", "created_at")
             -> "dateFrom"
      [] queryText[k - 1] = Op("<=") /\ queryText[k - 3] = Col("p", "created_at")
             -> "dateTo"
      [] queryText[k - 1] = Op("=") /\ queryText[k - 2] = Col("e", "user_id")
             -> "hostUserId"
      [] queryText[k - 1] = Kw("LIMIT") -> "limit"
      [] queryText[k - 1] = Kw("OFFSET") -> "offset"
      [] OTHER -> "none"

KeywordAt(word) == {k \in 1..Len(queryText) : queryText[k] = Kw(word)}

\* C28: for every combination of parameters left out or given, the placeholders of the
\* statement searchPayments builds are $1..$k in order of appearance, k is the length of
\* the parameter array, the i-th array element is the value of the parameter whose filter
\* wrote $i, and ORDER BY p.created_at DESC is present once, before LIMIT, which is
\* before OFFSET
C28_PlaceholdersNumbered ==
    spPc # "idle" =>
        /\ Cardinality(PlaceholderAt) = Len(queryParams)
        /\ \A i \in 1..Len(queryParams) :
               /\ queryText[NthPlaceholder(i)].n = i
               /\ IntroducedBy(NthPlaceholder(i)) # "none"
               /\ queryParams[i] = spParams[IntroducedBy(NthPlaceholder(i))]
        /\ \E o \in KeywordAt("ORDER BY") :
               /\ KeywordAt("ORDER BY") = {o}
               /\ queryText[o + 1] = Col("p", "created_at")
               /\ queryText[o + 2] = Kw("DESC")
               /\ \A l \in KeywordAt("LIMIT") : o < l
               /\ \A f \in KeywordAt("OFFSET") :
                      o < f /\ \A l \in KeywordAt("LIMIT") : l < f

\* a call that gave all six parameters: six placeholders, LIMIT and OFFSET last
C28_Witness ==
    /\ spPc = "done"
    /\ \A name \in DOMAIN spParams : Truthy(spParams[name])
    /\ Len(queryParams) = 6
    /\ queryParams[5] = NumberOf(10)
    /\ queryParams[6] = NumberOf(20)
    /\ KeywordAt("LIMIT") # {}
    /\ KeywordAt("OFFSET") # {}

\* ------------------------------------------------------------------ C29

\* C29: after any sequence of preset selections and edits of the custom request, at most
\* one of selectedChart and customPrompt is non-empty, so generateChart never reads a
\* set preset together with a non-empty request
C29_SelectorExclusive ==
    /\ selectedChart = "" \/ customPrompt = <<>>
    /\ charted.selected = "" \/ charted.prompt = <<>>

\* a preset was selected after generateChart had run on a typed request: the request
\* text is gone
C29_Witness ==
    /\ charted.prompt # <<>>
    /\ charted.selected = ""
    /\ selectedChart # ""
    /\ customPrompt = <<>>

====
